---- MODULE Spec2Model ----
(***************************************************************************)
(* A model of the EPUB ingestion pipeline of reader3.py: process_epub and  *)
(* the helpers it calls (image extraction, TOC building, chapter           *)
(* normalisation, cover detection).                                        *)
(*                                                                         *)
(* Strings are sequences of one-character strings, so that basename,       *)
(* sanitisation, lower-casing, substring search, URL-decoding and          *)
(* splitting at '#' are computed character by character as Python does.    *)
(***************************************************************************)
EXTENDS Integers, Sequences, FiniteSets, TLC

\* ------------------------------------------------------------------------
\* Bounds of the model
\* ------------------------------------------------------------------------
MaxItems == 2
MaxSpine == 2
MaxNodes == 2
MaxHref == 3
\* the instants datetime.now() can return are 1..MaxClock
MaxClock == 2
\* the epub files of the directory process_all_epubs works on
MaxFiles == 2
\* the interpreter's limit on nested calls (1000 by default), scaled down
RecursionLimit == 2

\* ------------------------------------------------------------------------
\* Characters and strings
\* ------------------------------------------------------------------------
None == "None"

UpperLetters == {"C"}
LowerLetters == {"a", "b", "c", "e", "o", "r", "v", "x", "t"}
Digits == {"1", "2", "0"}

\* str.isalpha() / str.isdigit() on one character
isalpha(c) == c \in UpperLetters \cup LowerLetters
isdigit(c) == c \in Digits

\* str.lower() on one character, then on a string
LowerChar(c) == IF c = "C" THEN "c" ELSE c
lower(s) == [k \in 1..Len(s) |-> LowerChar(s[k])]

\* Python whitespace as far as the alphabet has it
IsSpace(c) == c = " "

\* the positions of character c in s
Positions(s, c) == {k \in 1..Len(s) : s[k] = c}
Max(S) == CHOOSE m \in S : \A n \in S : n <= m
Min(S) == CHOOSE m \in S : \A n \in S : m <= n

\* os.path.basename: what follows the last '/'
basename(p) ==
  IF Positions(p, "/") = {} THEN p
  ELSE SubSeq(p, Max(Positions(p, "/")) + 1, Len(p))

\* str.strip(): leading and trailing whitespace removed
strip(s) ==
  LET keep == {k \in 1..Len(s) : ~IsSpace(s[k])}
  IN IF keep = {} THEN <<>> ELSE SubSeq(s, Min(keep), Max(keep))

\* needle in hay  (Python's substring test)
Contains(hay, needle) ==
  \E k \in 0..(Len(hay) - Len(needle)) :
     SubSeq(hay, k + 1, k + Len(needle)) = needle

COVER == <<"c", "o", "v", "e", "r">>
IMAGES_SLASH == <<"i", "m", "a", "g", "e", "s", "/">>

\* urllib.parse.unquote on the escapes the alphabet has: %20 is a space and
\* %2F a slash; any other '%' is left as it is
RECURSIVE unquote(_)
unquote(s) ==
  IF s = <<>> THEN <<>>
  ELSE IF Len(s) >= 3 /\ SubSeq(s, 1, 3) = <<"%", "2", "0">>
       THEN <<" ">> \o unquote(SubSeq(s, 4, Len(s)))
  ELSE IF Len(s) >= 3 /\ SubSeq(s, 1, 3) = <<"%", "2", "F">>
       THEN <<"/">> \o unquote(SubSeq(s, 4, Len(s)))
  ELSE <<s[1]>> \o unquote(Tail(s))

\* the file name process_epub gives an image: only letters, digits and
\* '.', '_', '-' of the basename are kept, then strip()
SafeChar(c) == isalpha(c) \/ isdigit(c) \/ c \in {".", "_", "-"}
safe_fname(original_fname) == strip(SelectSeq(original_fname, SafeChar))

\* a Python dict: a sequence of <<key, value>> pairs in insertion order, no
\* key twice; assigning to an existing key keeps the key's position
DictKeys(d) == {d[k][1] : k \in 1..Len(d)}
DictValues(d) == {d[k][2] : k \in 1..Len(d)}
DictHas(d, key) == key \in DictKeys(d)
DictGet(d, key) == d[CHOOSE k \in 1..Len(d) : d[k][1] = key][2]
DictSet(d, key, value) ==
  IF DictHas(d, key)
  THEN [k \in 1..Len(d) |-> IF d[k][1] = key THEN <<key, value>> ELSE d[k]]
  ELSE Append(d, <<key, value>>)

\* ------------------------------------------------------------------------
\* Documents: the tree BeautifulSoup(raw_content, "html.parser") builds.
\* A soup is the sequence of its top-level nodes; a node is a record with
\*   tag  : the element's name, or "#text" / "#comment" for strings,
\*   src  : an img element's src attribute (img.get("src", "")),
\*   s    : the characters of a string node,
\*   kids : the children, in order,
\*   nid  : the node's identity (its number in document order).
\* ------------------------------------------------------------------------
TEXT == "#text"
COMMENT == "#comment"

Text(s) == [tag |-> TEXT, src |-> <<>>, s |-> s, kids |-> <<>>, nid |-> 0]
Comment(s) == [tag |-> COMMENT, src |-> <<>>, s |-> s, kids |-> <<>>, nid |-> 0]
Elem(tag, kids) == [tag |-> tag, src |-> <<>>, s |-> <<>>, kids |-> kids, nid |-> 0]
Img(src) == [tag |-> "img", src |-> src, s |-> <<>>, kids |-> <<>>, nid |-> 0]

\* the tags html.parser never gives children
VoidTags == {"img", "input"}

\* number of nodes of a forest
RECURSIVE Size(_)
Size(forest) ==
  IF forest = <<>> THEN 0
  ELSE 1 + Size(Head(forest).kids) + Size(Tail(forest))

\* the nodes numbered 1, 2, ... in document order, starting after `base`
RECURSIVE NumberFrom(_, _)
NumberFrom(forest, base) ==
  IF forest = <<>> THEN <<>>
  ELSE LET n == Head(forest)
           kids == NumberFrom(n.kids, base + 1)
       IN <<[n EXCEPT !.nid = base + 1, !.kids = kids]>>
          \o NumberFrom(Tail(forest), base + 1 + Size(n.kids))
Number(forest) == NumberFrom(forest, 0)

\* every node of the forest, in document order (a node, then its
\* descendants, then its later siblings)
RECURSIVE Descendants(_)
Descendants(forest) ==
  IF forest = <<>> THEN <<>>
  ELSE <<Head(forest)>> \o Descendants(Head(forest).kids)
       \o Descendants(Tail(forest))

\* soup.find_all(tags): the matching nodes in document order
find_all(soup, tags) == SelectSeq(Descendants(soup), LAMBDA n : n.tag \in tags)

\* soup.find(tag): the first match, or None
HasTag(soup, tag) == find_all(soup, {tag}) # <<>>
find(soup, tag) == Head(find_all(soup, {tag}))

\* tag.decompose() / string.extract(): the node leaves the tree with its
\* whole subtree; a node that already left with an ancestor is not there
RECURSIVE Detach(_, _)
Detach(forest, nid) ==
  IF forest = <<>> THEN <<>>
  ELSE LET n == Head(forest)
       IN IF n.nid = nid THEN Detach(Tail(forest), nid)
          ELSE <<[n EXCEPT !.kids = Detach(n.kids, nid)]>>
               \o Detach(Tail(forest), nid)

\* for node in found: node.decompose()
RECURSIVE DetachEach(_, _)
DetachEach(forest, found) ==
  IF found = <<>> THEN forest
  ELSE DetachEach(Detach(forest, Head(found).nid), Tail(found))

\* clean_html_content without its last loop: input elements stay
clean_html_content_NoInputs(soup) ==
  LET s1 == DetachEach(soup, find_all(soup, {"script", "style", "iframe", "video",
                                             "nav", "form", "button"}))
  IN DetachEach(s1, find_all(s1, {COMMENT}))

RemovedTags == {"script", "style", "iframe", "video", "nav", "form", "button"}

\* clean_html_content
clean_html_content(soup) ==
  LET s1 == DetachEach(soup, find_all(soup, RemovedTags))
      s2 == DetachEach(s1, find_all(s1, {COMMENT}))
      s3 == DetachEach(s2, find_all(s2, {"input"}))
  IN s3

\* str.join / str.split
RECURSIVE join(_, _)
join(sep, parts) ==
  IF parts = <<>> THEN <<>>
  ELSE IF Len(parts) = 1 THEN parts[1]
  ELSE parts[1] \o sep \o join(sep, Tail(parts))

\* text.split(): the maximal runs of non-whitespace characters
RECURSIVE split(_)
split(s) ==
  IF s = <<>> THEN <<>>
  ELSE IF IsSpace(s[1]) THEN split(Tail(s))
  ELSE LET stops == {k \in 1..Len(s) : IsSpace(s[k])}
           end == IF stops = {} THEN Len(s) ELSE Min(stops) - 1
       IN <<SubSeq(s, 1, end)>> \o split(SubSeq(s, end + 1, Len(s)))

\* soup.get_text(separator): the text strings (comments are not text) in
\* document order, joined by the separator
TextStrings(soup) ==
  LET strs == SelectSeq(Descendants(soup), LAMBDA n : n.tag = TEXT)
  IN [k \in 1..Len(strs) |-> strs[k].s]
get_text(soup, separator) == join(separator, TextStrings(soup))

\* extract_plain_text
extract_plain_text(soup) == join(<<" ">>, split(get_text(soup, <<" ">>)))

\* ------------------------------------------------------------------------
\* Markup: str(node) and the parser.  A markup string is a sequence of
\* tokens: an opening tag, a closing tag, a void element, a comment, or a
\* run of text.  Two runs of text written one after the other are one run of
\* text in the string, and an empty string node writes nothing.
\* ------------------------------------------------------------------------
Tok(t, tag, src, s) == [t |-> t, tag |-> tag, src |-> src, s |-> s]

\* string concatenation of two pieces of markup
Cat(a, b) ==
  IF a = <<>> THEN b
  ELSE IF b = <<>> THEN a
  ELSE IF a[Len(a)].t = "text" /\ b[1].t = "text"
       THEN SubSeq(a, 1, Len(a) - 1)
            \o <<Tok("text", TEXT, <<>>, a[Len(a)].s \o b[1].s)>>
            \o Tail(b)
  ELSE a \o b

\* str(x) for every x of a forest, concatenated
RECURSIVE Markup(_)
Markup(forest) ==
  IF forest = <<>> THEN <<>>
  ELSE LET n == Head(forest)
           me == IF n.tag = TEXT
                   THEN IF n.s = <<>> THEN <<>> ELSE <<Tok("text", TEXT, <<>>, n.s)>>
                 ELSE IF n.tag = COMMENT THEN <<Tok("comment", COMMENT, <<>>, n.s)>>
                 ELSE IF n.tag \in VoidTags THEN <<Tok("void", n.tag, n.src, <<>>)>>
                 ELSE Cat(Cat(<<Tok("open", n.tag, n.src, <<>>)>>, Markup(n.kids)),
                          <<Tok("close", n.tag, <<>>, <<>>)>>)
       IN Cat(me, Markup(Tail(forest)))

\* the parser: the nodes read from position `pos` up to the closing tag of
\* the enclosing element (or the end), and the position after them
RECURSIVE ParseFrom(_, _)
ParseFrom(toks, pos) ==
  IF pos > Len(toks) \/ toks[pos].t = "close"
  THEN [nodes |-> <<>>, next |-> pos]
  ELSE LET tk == toks[pos]
       IN IF tk.t = "open"
          THEN LET inner == ParseFrom(toks, pos + 1)
                   rest == ParseFrom(toks, inner.next + 1)
                   n == [tag |-> tk.tag, src |-> tk.src, s |-> <<>>,
                         kids |-> inner.nodes, nid |-> 0]
               IN [nodes |-> <<n>> \o rest.nodes, next |-> rest.next]
          ELSE LET rest == ParseFrom(toks, pos + 1)
                   n == IF tk.t = "text" THEN Text(tk.s)
                        ELSE IF tk.t = "comment" THEN Comment(tk.s)
                        ELSE [tag |-> tk.tag, src |-> tk.src, s |-> <<>>,
                              kids |-> <<>>, nid |-> 0]
               IN [nodes |-> <<n>> \o rest.nodes, next |-> rest.next]

\* BeautifulSoup(markup, "html.parser")
BeautifulSoup(markup) == Number(ParseFrom(markup, 1).nodes)


\* ------------------------------------------------------------------------
\* Chapter normalisation (the body of the spine loop of process_epub)
\* ------------------------------------------------------------------------

\* A. Fix Images: every img with a non-empty src whose decoded src, or else
\* the basename of it, is a key of image_map gets the mapped path
\* the lookup without URL-decoding
NewSrc_NoDecode(src, image_map) ==
  IF src = <<>> THEN src
  ELSE IF DictHas(image_map, src) THEN DictGet(image_map, src)
  ELSE IF DictHas(image_map, basename(src)) THEN DictGet(image_map, basename(src))
  ELSE src

NewSrc(src, image_map) ==
  LET src_decoded == unquote(src)
      filename == basename(src_decoded)
  IN IF src = <<>> THEN src
     ELSE IF DictHas(image_map, src_decoded) THEN DictGet(image_map, src_decoded)
     ELSE IF DictHas(image_map, filename) THEN DictGet(image_map, filename)
     ELSE src

RECURSIVE FixImages(_, _)
FixImages(forest, image_map) ==
  IF forest = <<>> THEN <<>>
  ELSE LET n == Head(forest)
           m == IF n.tag = "img"
                THEN [n EXCEPT !.src = NewSrc(n.src, image_map)]
                ELSE [n EXCEPT !.kids = FixImages(n.kids, image_map)]
       IN <<m>> \o FixImages(Tail(forest), image_map)

\* the whole document serialized, body or not
final_html_WholeDocument(soup) == Markup(soup)

\* C. Extract Body Content only
final_html(soup) ==
  IF HasTag(soup, "body") THEN Markup(find(soup, "body").kids)
  ELSE Markup(soup)

\* the soup of a chapter after A and B
ChapterSoup(raw_content, image_map) ==
  clean_html_content(FixImages(BeautifulSoup(raw_content), image_map))

\* D. Create Object
ChapterContent(item_id, item, i, image_map) ==
  LET soup == ChapterSoup(item.content, image_map)
  IN [id |-> item_id,
      href |-> item.name,
      title |-> <<"Section ", i + 1>>,
      content |-> final_html(soup),
      text |-> extract_plain_text(soup),
      order |-> i]

\* ------------------------------------------------------------------------
\* The container as ebooklib presents it
\* ------------------------------------------------------------------------
ITEM_DOCUMENT == "ITEM_DOCUMENT"
ITEM_IMAGE == "ITEM_IMAGE"
ITEM_OTHER == "ITEM_OTHER"

\* book.get_item_with_id(uid): the first item with that id, if any
HasItemWithId(items, uid) == \E p \in 1..Len(items) : items[p].id = uid
get_item_with_id(items, uid) ==
  items[Min({p \in 1..Len(items) : items[p].id = uid})]

\* ------------------------------------------------------------------------
\* Navigation: book.toc is a list of Link objects, Section objects and
\* (Section, [children]) tuples; anything else is not recognised
\* ------------------------------------------------------------------------
LINK == "Link"
SECTION == "Section"
TUPLE == "tuple"
UNKNOWN == "unknown"

NavNode(kind, title, href, children) ==
  [kind |-> kind, title |-> title, href |-> href, children |-> children]

\* href.split("#"): the pieces between the '#' characters
RECURSIVE split_hash(_)
split_hash(href) ==
  IF Positions(href, "#") = {} THEN <<href>>
  ELSE LET h == Min(Positions(href, "#"))
       IN <<SubSeq(href, 1, h - 1)>> \o split_hash(SubSeq(href, h + 1, Len(href)))

TOCEntry(title, href, children) ==
  [title |-> title,
   href |-> href,
   file_href |-> split_hash(href)[1],
   anchor |-> IF Positions(href, "#") # {} THEN split_hash(href)[2] ELSE <<>>,
   children |-> children]

\* the conversion that passes over Section objects that come without children
RECURSIVE parse_toc_recursive_LinksOnly(_, _)
parse_toc_recursive_LinksOnly(toc_list, depth) ==
  IF toc_list = <<>> THEN <<>>
  ELSE LET item == Head(toc_list)
           entry == IF item.kind = TUPLE
                    THEN <<TOCEntry(item.title, item.href,
                                    parse_toc_recursive_LinksOnly(item.children,
                                                                  depth + 1))>>
                    ELSE IF item.kind = LINK
                    THEN <<TOCEntry(item.title, item.href, <<>>)>>
                    ELSE <<>>
       IN entry \o parse_toc_recursive_LinksOnly(Tail(toc_list), depth)

\* depth is handed down and never tested: the descent has no cap of its own
RECURSIVE parse_toc_recursive(_, _)
parse_toc_recursive(toc_list, depth) ==
  IF toc_list = <<>> THEN <<>>
  ELSE LET item == Head(toc_list)
           entry == IF item.kind = TUPLE
                    THEN <<TOCEntry(item.title, item.href,
                                    parse_toc_recursive(item.children, depth + 1))>>
                    ELSE IF item.kind \in {LINK, SECTION}
                    THEN <<TOCEntry(item.title, item.href, <<>>)>>
                    ELSE <<>>
       IN entry \o parse_toc_recursive(Tail(toc_list), depth)

\* the call at this depth, or one it makes for a tuple's children, needs more
\* nested calls than the interpreter allows: RecursionError is raised and
\* nothing in parse_toc_recursive or process_epub catches it
RECURSIVE RecursionError(_, _)
RecursionError(toc_list, depth) ==
  \/ depth > RecursionLimit
  \/ \E k \in 1..Len(toc_list) :
        /\ toc_list[k].kind = TUPLE
        /\ RecursionError(toc_list[k].children, depth + 1)

\* get_fallback_toc without the test of the item type
get_fallback_toc_AllItems(items) ==
  [k \in 1..Len(items) |->
     [title |-> <<"Title of ", items[k].name>>,
      href |-> items[k].name,
      file_href |-> items[k].name,
      anchor |-> <<>>,
      children |-> <<>>]]

\* get_fallback_toc: one flat entry per document item, in manifest order.
\* The title is the humanised file name; the model keeps the name it is
\* made from.
get_fallback_toc(items) ==
  LET docs == SelectSeq(items, LAMBDA it : it.type = ITEM_DOCUMENT)
  IN [k \in 1..Len(docs) |->
        [title |-> <<"Title of ", docs[k].name>>,
         href |-> docs[k].name,
         file_href |-> docs[k].name,
         anchor |-> <<>>,
         children |-> <<>>]]

\* ------------------------------------------------------------------------
\* Cover detection
\* ------------------------------------------------------------------------

\* Method 1: the declared cover
Method1Hit(book, image_map) ==
  /\ book.cover_meta # <<>>
  /\ LET attrs == book.cover_meta[1][2]
     IN /\ attrs # <<>>
        /\ DictHas(attrs, "content")
        /\ HasItemWithId(book.items, DictGet(attrs, "content"))
        /\ DictHas(image_map,
                   get_item_with_id(book.items, DictGet(attrs, "content")).name)
\* Method 1 returning the item's name instead of its mapped path
Method1_ItemName(book, image_map) ==
  get_item_with_id(book.items, DictGet(book.cover_meta[1][2], "content")).name

Method1(book, image_map) ==
  DictGet(image_map,
          get_item_with_id(book.items, DictGet(book.cover_meta[1][2], "content")).name)

\* Method 2: the first key of the map, in the dict's order, with "cover" in
\* its lower-cased form
Method2Keys(image_map) ==
  {k \in 1..Len(image_map) : Contains(lower(image_map[k][1]), COVER)}
Method2Hit(image_map) == Method2Keys(image_map) # {}
\* Method 2 taking the last such key
Method2_LastKey(image_map) == image_map[Max(Method2Keys(image_map))][2]

Method2(image_map) == image_map[Min(Method2Keys(image_map))][2]

\* Method 3 looking into the last document item
Method3Src_LastDocument(book) ==
  LET docs == SelectSeq(book.items, LAMBDA it : it.type = ITEM_DOCUMENT)
      soup == IF docs = <<>> THEN <<>> ELSE BeautifulSoup(docs[Len(docs)].content)
  IN IF HasTag(soup, "img") THEN find(soup, "img").src ELSE <<>>

\* Method 3: the first img of the first document item of the manifest
Method3Src(book) ==
  LET docs == SelectSeq(book.items, LAMBDA it : it.type = ITEM_DOCUMENT)
      soup == IF docs = <<>> THEN <<>> ELSE BeautifulSoup(docs[1].content)
  IN IF HasTag(soup, "img") THEN find(soup, "img").src ELSE <<>>
Method3Hit(book, image_map) ==
  LET src == Method3Src(book)
  IN /\ src # <<>>
     /\ \/ DictHas(image_map, unquote(src))
        \/ DictHas(image_map, basename(unquote(src)))
Method3(book, image_map) ==
  LET src_decoded == unquote(Method3Src(book))
  IN IF DictHas(image_map, src_decoded) THEN DictGet(image_map, src_decoded)
     ELSE DictGet(image_map, basename(src_decoded))

\* detect_cover_image trying the name heuristic before the declaration
detect_cover_image_NameFirst(book, image_map) ==
  IF Method2Hit(image_map) THEN <<Method2(image_map)>>
  ELSE IF Method1Hit(book, image_map) THEN <<Method1(book, image_map)>>
  ELSE IF Method3Hit(book, image_map) THEN <<Method3(book, image_map)>>
  ELSE <<>>

\* detect_cover_image giving up when a declaration does not resolve
detect_cover_image_NoFallThrough(book, image_map) ==
  IF book.cover_meta # <<>>
  THEN IF Method1Hit(book, image_map) THEN <<Method1(book, image_map)>> ELSE <<>>
  ELSE IF Method2Hit(image_map) THEN <<Method2(image_map)>>
  ELSE IF Method3Hit(book, image_map) THEN <<Method3(book, image_map)>>
  ELSE <<>>

\* detect_cover_image: <<path>>, or <<>> for None
detect_cover_image(book, image_map) ==
  IF Method1Hit(book, image_map) THEN <<Method1(book, image_map)>>
  ELSE IF Method2Hit(image_map) THEN <<Method2(image_map)>>
  ELSE IF Method3Hit(book, image_map) THEN <<Method3(book, image_map)>>
  ELSE <<>>

\* ------------------------------------------------------------------------
\* Metadata
\* ------------------------------------------------------------------------
UNTITLED == <<"U", "n", "t", "i", "t", "l", "e", "d">>
EN == <<"e", "n">>

\* book_obj.get_metadata("DC", key): the (value, attributes) pairs, [] when
\* the key is missing
get_metadata(book_obj, key) == book_obj.dc[key]

get_list(book_obj, key) ==
  LET data == get_metadata(book_obj, key)
  IN IF data # <<>> THEN [k \in 1..Len(data) |-> data[k][1]] ELSE <<>>

get_one(book_obj, key) ==
  LET data == get_metadata(book_obj, key)
  IN IF data # <<>> THEN data[1][1] ELSE <<>>

\* x or default, with the default taken for None only
Or_NoneOnly(x, default) ==
  IF x = <<>> THEN default ELSE x[1]

\* x or default: the default when x is None or the empty string
Or(x, default) ==
  IF x = <<>> \/ x = <<<<>>>> THEN default ELSE x[1]

extract_metadata_robust(book_obj) ==
  [title |-> Or(get_one(book_obj, "title"), UNTITLED),
   language |-> Or(get_one(book_obj, "language"), EN),
   authors |-> get_list(book_obj, "creator"),
   description |-> get_one(book_obj, "description"),
   publisher |-> get_one(book_obj, "publisher"),
   date |-> get_one(book_obj, "date"),
   identifiers |-> get_list(book_obj, "identifier"),
   subjects |-> get_list(book_obj, "subject")]

\* ------------------------------------------------------------------------
\* State
\* ------------------------------------------------------------------------
VARIABLES
  pc,              \* where process_epub is
  epub,            \* the container at epub_path: readable or not, and its book
  fs,              \* the file system: each output location's state
  written,         \* the paths opened for writing by this run, in order
  image_map,       \* dict: internal path or basename -> local relative path
  item_k,          \* position of the image loop in book.get_items()
  toc_structure,   \* the navigation forest
  spine_chapters,  \* the chapters built so far
  spine_i,         \* position of the spine loop (0-based, as enumerate)
  cover_image,     \* <<path>> or <<>>
  final_book,      \* <<Book>> once process_epub has returned, else <<>>
  doc,             \* the chapter normaliser run on one document
  nav,             \* parse_toc_recursive run on one navigation list
  epub_path,       \* process_epub's first argument
  output_dir,      \* process_epub's second argument
  metadata,        \* <<BookMetadata>> once extracted, else <<>>
  clock,           \* what datetime.now() returns
  earlier,         \* what book.pkl of output_dir held before this call
  batch,           \* process_all_epubs: its files, position and counters
  parked,          \* a second process_epub call that is not running now
  cache,           \* lru_cache of load_book_cached: <<folder, result>>, oldest first
  response         \* what the server answered to the last request

\* what the steps of process_epub leave alone
\* the state of the web server
server == <<cache, response>>

env == <<epub_path, output_dir, clock, earlier, batch, parked, server>>

vars == <<pc, epub, fs, written, image_map, item_k, toc_structure,
          spine_chapters, spine_i, cover_image, final_book, doc, nav,
          metadata, env>>

\* output_dir as the running call sees it: whether it exists, its files
\* other than book.pkl, and the content of book.pkl
disk == fs[output_dir]

book == epub.book

\* a file of output_dir: its path relative to output_dir and its data;
\* data 0 is what was there before the run
File(path, data) == [path |-> path, data |-> data]
\* the file written into output_dir itself instead of images_dir
WriteFile_OutputDir(files, path, data) ==
  {f \in files : f.path # basename(path)} \cup {File(basename(path), data)}

WriteFile(files, path, data) ==
  {f \in files : f.path # path} \cup {File(path, data)}

\* the file written under every output location there is
WriteTo_Everywhere(f, dir, path, data) ==
  [d \in DOMAIN f |-> [f[d] EXCEPT !.files = WriteFile(@, path, data)]]

\* open(os.path.join(output_dir, path), "wb") and write(data)
WriteTo(f, dir, path, data) ==
  [f EXCEPT ![dir].files = WriteFile(@, path, data)]

\* open(local_path, "wb") fails when the path names a directory: an empty
\* safe_fname gives images_dir itself, "." and ".." give directories too
IsDirectoryName(fname) == fname \in {<<>>, <<".">>, <<".", ".">>}

\* ------------------------------------------------------------------------
\* process_epub, step by step
\* ------------------------------------------------------------------------

\* the output location cleared before the container is read
Load_ClearsFirst ==
  /\ pc = "start"
  /\ fs' = [fs EXCEPT ![output_dir] = [exists |-> TRUE, files |-> {}, pkl |-> <<>>]]
  /\ pc' = IF epub.readable THEN "metadata" ELSE "raised"
  /\ UNCHANGED <<epub, written, image_map, item_k, toc_structure,
                 spine_chapters, spine_i, cover_image, final_book, doc, nav,
                 metadata, env>>

\* 1. epub.read_epub raises on an unreadable container
Load ==
  /\ pc = "start"
  /\ pc' = IF epub.readable THEN "metadata" ELSE "raised"
  /\ UNCHANGED <<epub, fs, written, image_map, item_k, toc_structure,
                 spine_chapters, spine_i, cover_image, final_book, doc, nav,
                 metadata, env>>

\* 2. Extract Metadata
ExtractMetadata ==
  /\ pc = "metadata"
  /\ metadata' = <<extract_metadata_robust(book)>>
  /\ pc' = "prepare"
  /\ UNCHANGED <<epub, fs, written, image_map, item_k, toc_structure,
                 spine_chapters, spine_i, cover_image, final_book, doc, nav, env>>

\* makedirs(images_dir) without the rmtree before it
PrepareDirs_NoRmtree ==
  /\ pc = "prepare"
  /\ fs' = [fs EXCEPT ![output_dir].exists = TRUE]
  /\ pc' = "images"
  /\ UNCHANGED <<epub, written, image_map, item_k, toc_structure,
                 spine_chapters, spine_i, cover_image, final_book, doc, nav,
                 metadata, env>>

\* 3. rmtree(output_dir) if it exists, then makedirs(images_dir)
PrepareDirs ==
  /\ pc = "prepare"
  /\ fs' = [fs EXCEPT ![output_dir] = [exists |-> TRUE, files |-> {}, pkl |-> <<>>]]
  /\ pc' = "images"
  /\ UNCHANGED <<epub, written, image_map, item_k, toc_structure,
                 spine_chapters, spine_i, cover_image, final_book, doc, nav,
                 metadata, env>>

\* 4. one round of the loop over book.get_items()
ExtractImage ==
  /\ pc = "images"
  /\ item_k <= Len(book.items)
  /\ LET item == book.items[item_k]
         original_fname == basename(item.name)
         fname == safe_fname(original_fname)
         rel_path == IMAGES_SLASH \o fname
     IN IF item.type # ITEM_IMAGE
        THEN /\ item_k' = item_k + 1
             /\ UNCHANGED <<pc, fs, written, image_map>>
        ELSE IF IsDirectoryName(fname)
        THEN /\ pc' = "raised"
             /\ UNCHANGED <<item_k, fs, written, image_map>>
        ELSE /\ fs' = WriteTo(fs, output_dir, rel_path, item.bytes)
             /\ written' = Append(written, rel_path)
             /\ image_map' = DictSet(DictSet(image_map, item.name, rel_path),
                                     original_fname, rel_path)
             /\ item_k' = item_k + 1
             /\ pc' = pc
  /\ UNCHANGED <<epub, toc_structure, spine_chapters, spine_i, cover_image,
                 final_book, doc, nav,
                 metadata, env>>

\* the fallback taken only when book.toc itself is empty
ProcessToc_FallbackOnEmptyNav ==
  /\ pc = "images"
  /\ item_k > Len(book.items)
  /\ toc_structure' =
       IF book.toc = <<>>
       THEN get_fallback_toc(book.items)
       ELSE parse_toc_recursive(book.toc, 0)
  /\ pc' = "chapters"
  /\ UNCHANGED <<epub, fs, written, image_map, item_k, spine_chapters,
                 spine_i, cover_image, final_book, doc, nav,
                 metadata, env>>

\* 5. the TOC, or the fallback when it comes out empty
ProcessToc ==
  /\ pc = "images"
  /\ item_k > Len(book.items)
  /\ IF RecursionError(book.toc, 0)
     THEN /\ pc' = "raised"
          /\ toc_structure' = toc_structure
     ELSE /\ toc_structure' =
               IF parse_toc_recursive(book.toc, 0) = <<>>
               THEN get_fallback_toc(book.items)
               ELSE parse_toc_recursive(book.toc, 0)
          /\ pc' = "chapters"
  /\ UNCHANGED <<epub, fs, written, image_map, item_k, spine_chapters,
                 spine_i, cover_image, final_book, doc, nav,
                 metadata, env>>

\* the spine loop without the test of the item type
ProcessSpineItem_AnyType ==
  /\ pc = "chapters"
  /\ spine_i < Len(book.spine)
  /\ LET item_id == book.spine[spine_i + 1][1]
     IN spine_chapters' =
          IF HasItemWithId(book.items, item_id)
          THEN Append(spine_chapters,
                      ChapterContent(item_id, get_item_with_id(book.items, item_id),
                                     spine_i, image_map))
          ELSE spine_chapters
  /\ spine_i' = spine_i + 1
  /\ UNCHANGED <<pc, epub, fs, written, image_map, item_k, toc_structure,
                 cover_image, final_book, doc, nav,
                 metadata, env>>

\* 6. one round of the loop over enumerate(book.spine)
ProcessSpineItem ==
  /\ pc = "chapters"
  /\ spine_i < Len(book.spine)
  /\ LET item_id == book.spine[spine_i + 1][1]
     IN spine_chapters' =
          IF /\ HasItemWithId(book.items, item_id)
             /\ get_item_with_id(book.items, item_id).type = ITEM_DOCUMENT
          THEN Append(spine_chapters,
                      ChapterContent(item_id, get_item_with_id(book.items, item_id),
                                     spine_i, image_map))
          ELSE spine_chapters
  /\ spine_i' = spine_i + 1
  /\ UNCHANGED <<pc, epub, fs, written, image_map, item_k, toc_structure,
                 cover_image, final_book, doc, nav,
                 metadata, env>>

\* 7. the cover
DetectCover ==
  /\ pc = "chapters"
  /\ spine_i >= Len(book.spine)
  /\ cover_image' = detect_cover_image(book, image_map)
  /\ pc' = "assemble"
  /\ UNCHANGED <<epub, fs, written, image_map, item_k, toc_structure,
                 spine_chapters, spine_i, final_book, doc, nav,
                 metadata, env>>

\* 8. Final Assembly
\* datetime.isoformat(): the instant written out in digits
isoformat(t) == <<t \div 10, t % 10>>

Book(meta, spine, toc, images, source_file, processed_at, cover) ==
  [metadata |-> meta, spine |-> spine, toc |-> toc, images |-> images,
   source_file |-> source_file, processed_at |-> processed_at,
   version |-> "3.0", cover_image |-> cover]

Assemble ==
  /\ pc = "assemble"
  /\ final_book' = <<Book(metadata[1], spine_chapters, toc_structure, image_map,
                          basename(epub_path), isoformat(clock), cover_image)>>
  /\ pc' = "returned"
  /\ UNCHANGED <<epub, fs, written, image_map, item_k, toc_structure,
                 spine_chapters, spine_i, cover_image, doc, nav, metadata, env>>

Next ==
  \/ Load
  \/ ExtractMetadata
  \/ PrepareDirs
  \/ ExtractImage
  \/ ProcessToc
  \/ ProcessSpineItem
  \/ DetectCover
  \/ Assemble

\* ------------------------------------------------------------------------
\* Inputs
\* ------------------------------------------------------------------------
SeqsUpTo(S, n) == UNION {[1..m -> S] : m \in 0..n}

\* names of image resources: "x/a" (a path with a directory), "a!" (whose
\* basename sanitises to "a" too), "Cover" and "!" (which sanitises to "")
NAME_XA == <<"x", "/", "a">>
NAME_A_BANG == <<"a", "!">>
NAME_COVER == <<"C", "o", "v", "e", "r">>
NAME_BANG == <<"!">>
ImageNames == {NAME_XA, NAME_A_BANG, NAME_COVER, NAME_BANG}

\* two documents: one with a head and a body, whose first img refers to
\* "x/a", and one without a body element
DOC_FULL ==
  Markup(<<Elem("html",
     <<Elem("head", <<Elem("title", <<Text(<<"t">>)>>)>>),
       Elem("body", <<Img(NAME_XA), Elem("p", <<Text(<<"a">>)>>)>>)>>)>>)
DOC_BARE == Markup(<<Elem("p", <<Text(<<"b">>)>>), Elem("script", <<Text(<<"x">>)>>)>>)

Item(name, type, content) ==
  [id |-> 0, name |-> name, type |-> type, content |-> content, bytes |-> 0]
ImageItems == {Item(n, ITEM_IMAGE, <<>>) : n \in ImageNames}
DocItems == {Item(<<"c", "1">>, ITEM_DOCUMENT, DOC_FULL),
             Item(<<"c", "2">>, ITEM_DOCUMENT, DOC_BARE)}
OtherItems == {Item(<<"s">>, ITEM_OTHER, <<>>)}

\* a manifest: the item at position p has id p, and an image's bytes are
\* its own
Manifest(tmpl) ==
  [p \in 1..Len(tmpl) |-> [tmpl[p] EXCEPT !.id = p, !.bytes = p]]
Manifests(choices) == {Manifest(t) : t \in SeqsUpTo(choices, MaxItems)}

\* spine entries (idref, linear); id MaxItems + 1 is in no manifest
Spines == SeqsUpTo({<<id, "yes">> : id \in 1..(MaxItems + 1)}, MaxSpine)
\* the spine that lists every item once, in manifest order
PlainSpine(items) == [p \in 1..Len(items) |-> <<items[p].id, "yes">>]

\* navigation lists
Navs == {<<>>,
         <<NavNode(UNKNOWN, "", <<>>, <<>>)>>,
         <<NavNode(TUPLE, "A", <<"c", "1">>,
                   <<NavNode(LINK, "B", <<"c", "1", "#", "x">>, <<>>)>>),
           NavNode(SECTION, "C", <<"c", "2">>, <<>>)>>}

\* <meta name="cover" .../> as get_metadata("OPF", "cover") gives it: no
\* declaration, one without attributes, one without a content attribute, or
\* one naming an item id
CoverMetas ==
  {<<>>, << <<None, <<>> >> >>, << <<None, << <<"name", "cover">> >> >> >>}
  \cup {<< <<None, << <<"name", "cover">>, <<"content", id>> >> >> >> :
          id \in 1..(MaxItems + 1)}

\* output_dir before the run: absent, or left by an earlier ingestion
OLD_IMAGE == IMAGES_SLASH \o <<"o">>
BOOK_PKL == <<"b", "o", "o", "k", ".", "p", "k", "l">>
HIGHLIGHTS == <<"h", ".", "j", "s", "o", "n">>
PROGRESS == <<"r", ".", "j", "s", "o", "n">>
OLD_PKL == <<"o", "l", "d">>
Absent == [exists |-> FALSE, files |-> {}, pkl |-> <<>>]
Disks == {Absent,
          [exists |-> TRUE,
           files |-> {File(OLD_IMAGE, 0), File(HIGHLIGHTS, 0), File(PROGRESS, 0)},
           pkl |-> <<OLD_PKL>>]}

\* the arguments of the one call
EPUB_PATH == <<"d", "/", "b", ".", "e", "p", "u", "b">>
OUT_DIR == <<"b", "_", "d", "a", "t", "a">>

\* the Dublin Core metadata of a book: per key, the (value, attributes)
\* pairs in document order; a value is <<>> for None and <<s>> for a string
Some(v) == <<v>>
DC(title, language) ==
  [title |-> title, language |-> language, creator |-> <<>>,
   description |-> <<>>, publisher |-> <<>>, date |-> <<>>,
   identifier |-> <<>>, subject |-> <<>>]
DC_PLAIN == DC(<< <<Some(<<"T">>), <<>> >> >>, <<>>)

EpubBook(items, spine, toc, cover_meta) ==
  [items |-> items, spine |-> spine, toc |-> toc, cover_meta |-> cover_meta,
   dc |-> DC_PLAIN]
Unreadable == [readable |-> FALSE, book |-> EpubBook(<<>>, <<>>, <<>>, <<>>)]

Idle == [stage |-> "idle"]

\* the server before its first request: nothing cached, nothing answered
NoResponse ==
  [stage |-> "none", book_id |-> <<>>, book |-> <<>>, index |-> 0, status |-> 0]

InitServer ==
  /\ cache = <<>>
  /\ response = NoResponse

InitRun ==
  /\ pc = "start"
  /\ written = <<>>
  /\ image_map = <<>>
  /\ item_k = 1
  /\ toc_structure = <<>>
  /\ spine_chapters = <<>>
  /\ spine_i = 0
  /\ cover_image = <<>>
  /\ final_book = <<>>
  /\ doc = Idle
  /\ nav = Idle
  /\ metadata = <<>>

\* one image and one document
SMALL_MANIFEST ==
  Manifest(<<Item(NAME_XA, ITEM_IMAGE, <<>>),
             Item(<<"c", "1">>, ITEM_DOCUMENT, DOC_FULL)>>)

\* one call of process_epub, at one instant
InitEnv ==
  /\ epub_path = EPUB_PATH
  /\ output_dir = OUT_DIR
  /\ clock = 1
  /\ batch = Idle
  /\ parked = Idle

\* Spec: the spine and the navigation vary
Init ==
  /\ InitRun
  /\ InitServer
  /\ InitEnv
  /\ fs \in {[d \in {OUT_DIR} |-> x] : x \in {Absent}}
  /\ earlier = fs[output_dir].pkl
  /\ epub \in {Unreadable} \cup
       {[readable |-> TRUE, book |-> EpubBook(m, sp, t, <<>>)] :
          m \in Manifests({Item(NAME_XA, ITEM_IMAGE, <<>>)} \cup DocItems \cup OtherItems),
          sp \in Spines, t \in Navs}

Spec == Init /\ [][Next]_vars

\* SpecAssets: the images, the cover declaration and output_dir vary
InitAssets ==
  /\ InitRun
  /\ InitServer
  /\ InitEnv
  /\ fs \in {[d \in {OUT_DIR} |-> x] : x \in Disks}
  /\ earlier = fs[output_dir].pkl
  /\ epub \in {Unreadable} \cup
       {[readable |-> TRUE, book |-> EpubBook(m, PlainSpine(m), <<>>, c)] :
          m \in Manifests(ImageItems \cup DocItems \cup OtherItems),
          c \in CoverMetas}

SpecAssets == InitAssets /\ [][Next]_vars

\* ------------------------------------------------------------------------
\* SpecRerun: process_epub followed by save_to_pickle, and then once more on
\* the same arguments, while time passes
\* ------------------------------------------------------------------------
\* pickle.dump(book): the fields of the Book in the order of the dataclass
dumps(b) ==
  <<b.metadata, b.spine, b.toc, b.images, b.source_file, b.processed_at,
    b.version, b.cover_image>>

save_to_pickle ==
  /\ pc = "returned"
  /\ fs' = [fs EXCEPT ![output_dir].pkl = <<dumps(final_book[1])>>]
  /\ pc' = "saved"
  /\ UNCHANGED <<epub, written, image_map, item_k, toc_structure,
                 spine_chapters, spine_i, cover_image, final_book, doc, nav,
                 metadata, env>>

\* the same ingestion started a second time
RunAgain ==
  /\ pc = "saved"
  /\ batch.stage = "idle"
  /\ earlier = <<>>
  /\ earlier' = disk.pkl
  /\ pc' = "start"
  /\ written' = <<>>
  /\ image_map' = <<>>
  /\ item_k' = 1
  /\ toc_structure' = <<>>
  /\ spine_chapters' = <<>>
  /\ spine_i' = 0
  /\ cover_image' = <<>>
  /\ final_book' = <<>>
  /\ metadata' = <<>>
  /\ UNCHANGED <<epub, fs, doc, nav, epub_path, output_dir, clock, batch, parked, server>>

\* time passes
Tick ==
  /\ clock < MaxClock
  /\ clock' = clock + 1
  /\ UNCHANGED <<pc, epub, fs, written, image_map, item_k, toc_structure,
                 spine_chapters, spine_i, cover_image, final_book, doc, nav,
                 metadata, epub_path, output_dir, earlier, batch, parked, server>>

InitRerun ==
  /\ InitRun
  /\ InitServer
  /\ InitEnv
  /\ fs = [d \in {OUT_DIR} |-> Absent]
  /\ earlier = fs[output_dir].pkl
  /\ epub \in {Unreadable} \cup
       {[readable |-> TRUE, book |-> EpubBook(m, PlainSpine(m), <<>>, <<>>)] :
          m \in Manifests({Item(NAME_XA, ITEM_IMAGE, <<>>)} \cup DocItems)}

NextRerun ==
  \/ Next
  \/ save_to_pickle
  \/ RunAgain
  \/ Tick

SpecRerun == InitRerun /\ [][NextRerun]_vars

\* ------------------------------------------------------------------------
\* SpecServe: the web server of server.py answering requests while a book is
\* ingested into its folder, saved, and ingested once more
\* ------------------------------------------------------------------------
\* @lru_cache(maxsize=10)
maxsize == 10

\* pickle.load raises on what is not the dump of a Book
Unpicklable(p) == Len(p) # 8

\* pickle.load on the dump of a Book: the Book with the fields dumped
loads(p) ==
  [metadata |-> p[1], spine |-> p[2], toc |-> p[3], images |-> p[4],
   source_file |-> p[5], processed_at |-> p[6], version |-> p[7],
   cover_image |-> p[8]]

\* the body of load_book_cached: None when book.pkl is missing or does not
\* unpickle, else the Book it holds
ReadBook(f, folder_name) ==
  IF f[folder_name].pkl = <<>> THEN <<>>
  ELSE IF Unpicklable(f[folder_name].pkl[1]) THEN <<>>
  ELSE <<loads(f[folder_name].pkl[1])>>

Cached(c, key) == \E k \in 1..Len(c) : c[k][1] = key
CachedValue(c, key) == c[CHOOSE k \in 1..Len(c) : c[k][1] = key][2]
Forget(c, key) == SelectSeq(c, LAMBDA e : e[1] # key)

\* functools.lru_cache around the body: a hit answers from the cache and
\* makes the entry the most recent one; a miss runs the body, stores what it
\* returned (None too) and drops the oldest entry beyond maxsize
load_book_cached(c, f, folder_name) ==
  IF Cached(c, folder_name)
  THEN [book |-> CachedValue(c, folder_name),
        cache |-> Append(Forget(c, folder_name),
                         <<folder_name, CachedValue(c, folder_name)>>)]
  ELSE LET stored == Append(c, <<folder_name, ReadBook(f, folder_name)>>)
       IN [book |-> ReadBook(f, folder_name),
           cache |-> IF Len(stored) > maxsize THEN Tail(stored) ELSE stored]

\* load_reading_progress(book_id)["current_chapter_index"]: what
\* reading_progress.json holds, 0 when there is no such file
HasProgress(f, book_id) == \E x \in f[book_id].files : x.path = PROGRESS
current_chapter_index(f, book_id) ==
  IF HasProgress(f, book_id)
  THEN (CHOOSE x \in f[book_id].files : x.path = PROGRESS).data
  ELSE 0

max(a, b) == IF a >= b THEN a ELSE b
min(a, b) == IF a <= b THEN a ELSE b

\* max(0, min(chapter_index, len(book.spine) - 1))
Clamp(chapter_index, b) == max(0, min(chapter_index, Len(b.spine) - 1))

\* the status read_chapter answers with
read_chapter_status(b, chapter_index) ==
  IF b = <<>> THEN 404
  ELSE IF chapter_index < 0 \/ chapter_index >= Len(b[1].spine) THEN 404
  ELSE 200

Response(stage, book_id, b, chapter_index, status) ==
  [stage |-> stage, book_id |-> book_id, book |-> b, index |-> chapter_index,
   status |-> status]

\* the chapter indexes a request or a progress file can hold
Indexes == (0 - 1)..MaxSpine

\* GET /read/{book_id}
redirect_to_saved_chapter ==
  \E book_id \in DOMAIN fs :
    LET safe_book_id == basename(book_id)
        chapter_index == current_chapter_index(fs, safe_book_id)
        loaded == load_book_cached(cache, fs, safe_book_id)
    IN /\ cache' = loaded.cache
       /\ response' = Response("redirect", book_id, loaded.book,
                               IF loaded.book # <<>>
                               THEN Clamp(chapter_index, loaded.book[1])
                               ELSE 0,
                               302)
       /\ UNCHANGED <<pc, epub, fs, written, image_map, item_k, toc_structure,
                      spine_chapters, spine_i, cover_image, final_book, doc,
                      nav, metadata, epub_path, output_dir, clock, earlier,
                      batch, parked>>

\* GET /read/{book_id}/{chapter_index}
read_chapter ==
  \E book_id \in DOMAIN fs, chapter_index \in Indexes :
    LET loaded == load_book_cached(cache, fs, book_id)
    IN /\ cache' = loaded.cache
       /\ response' = Response("chapter", book_id, loaded.book, chapter_index,
                               read_chapter_status(loaded.book, chapter_index))
       /\ UNCHANGED <<pc, epub, fs, written, image_map, item_k, toc_structure,
                      spine_chapters, spine_i, cover_image, final_book, doc,
                      nav, metadata, epub_path, output_dir, clock, earlier,
                      batch, parked>>

\* POST /api/progress: save_reading_progress fails when the folder of the
\* book does not exist
save_progress_endpoint ==
  \E book_id \in DOMAIN fs, requested \in Indexes :
    LET safe_book_id == basename(book_id)
        loaded == load_book_cached(cache, fs, safe_book_id)
        chapter_index == IF loaded.book # <<>>
                         THEN Clamp(requested, loaded.book[1])
                         ELSE requested
        success == fs[safe_book_id].exists
    IN /\ cache' = loaded.cache
       /\ fs' = IF success
                THEN WriteTo(fs, safe_book_id, PROGRESS, chapter_index)
                ELSE fs
       /\ response' = Response("progress", book_id, loaded.book, chapter_index,
                               IF success THEN 200 ELSE 500)
       /\ UNCHANGED <<pc, epub, written, image_map, item_k, toc_structure,
                      spine_chapters, spine_i, cover_image, final_book, doc,
                      nav, metadata, epub_path, output_dir, clock, earlier,
                      batch, parked>>

\* a folder that no ingestion writes to
NO_BOOK == <<"n", "o">>

\* a book without a document and one with a single chapter
ServeBooks ==
  {[readable |-> TRUE, book |-> EpubBook(m, PlainSpine(m), <<>>, <<>>)] :
     m \in {Manifest(<<Item(NAME_XA, ITEM_IMAGE, <<>>)>>),
            Manifest(<<Item(<<"c", "1">>, ITEM_DOCUMENT, DOC_BARE)>>)}}

InitServe ==
  /\ InitRun
  /\ InitServer
  /\ InitEnv
  /\ fs = [d \in {OUT_DIR, NO_BOOK} |-> Absent]
  /\ earlier = fs[output_dir].pkl
  /\ epub \in ServeBooks

NextServe ==
  \/ Next
  \/ save_to_pickle
  \/ RunAgain
  \/ Tick
  \/ redirect_to_saved_chapter
  \/ read_chapter
  \/ save_progress_endpoint

SpecServe == InitServe /\ [][NextServe]_vars

\* ------------------------------------------------------------------------
\* SpecBatch: process_all_epubs on a directory of epub files
\* ------------------------------------------------------------------------
\* the characters of the file names, in the order of their code points
Alphabet == <<".", "/", "_", "a", "b", "c", "d", "e", "n", "p", "t", "u", "x">>
ord(c) == CHOOSE k \in 1..Len(Alphabet) : Alphabet[k] = c

\* a < b on strings, as Python compares them
RECURSIVE StrLess(_, _)
StrLess(a, b) ==
  IF b = <<>> THEN FALSE
  ELSE IF a = <<>> THEN TRUE
  ELSE IF Head(a) # Head(b) THEN ord(Head(a)) < ord(Head(b))
  ELSE StrLess(Tail(a), Tail(b))

RECURSIVE Insert(_, _)
Insert(x, sortedSeq) ==
  IF sortedSeq = <<>> THEN <<x>>
  ELSE IF StrLess(x, Head(sortedSeq)) THEN <<x>> \o sortedSeq
  ELSE <<Head(sortedSeq)>> \o Insert(x, Tail(sortedSeq))

RECURSIVE sorted(_)
sorted(names) ==
  IF names = <<>> THEN <<>> ELSE Insert(Head(names), sorted(Tail(names)))

DOT_EPUB == <<".", "e", "p", "u", "b">>
UNDERSCORE_DATA == <<"_", "d", "a", "t", "a">>
endswith(str, suffix) ==
  /\ Len(str) >= Len(suffix)
  /\ SubSeq(str, Len(str) - Len(suffix) + 1, Len(str)) = suffix

\* os.path.join(a, b) for a relative b
path_join(a, b) == a \o <<"/">> \o b

\* os.path.splitext(p)[0]: p up to the last dot of its last component, a
\* dot that starts the component not counted
splitext_root(p) ==
  LET start == Max({0} \cup Positions(p, "/")) + 1
      dots == {k \in Positions(p, ".") : k > start}
  IN IF dots = {} THEN p ELSE SubSeq(p, 1, Max(dots) - 1)

DIRECTORY == <<".">>
out_dir_of(epub_file) ==
  splitext_root(path_join(DIRECTORY, epub_file)) \o UNDERSCORE_DATA

\* the file the loop is at
CurrentFile == batch.epub_files[batch.i]
Named(epub_file) ==
  batch.listing[CHOOSE k \in 1..Len(batch.listing) :
                  batch.listing[k].name = epub_file]

\* epub_files = [f for f in os.listdir(directory) if f.endswith(".epub")],
\* and the early return when there is none
BatchList ==
  /\ batch.stage = "list"
  /\ LET names == [k \in 1..Len(batch.listing) |-> batch.listing[k].name]
         epub_files == SelectSeq(names, LAMBDA f : endswith(f, DOT_EPUB))
     IN batch' = [batch EXCEPT !.stage = IF epub_files = <<>> THEN "done" ELSE "loop",
                               !.epub_files = sorted(epub_files),
                               !.i = 1]
  /\ UNCHANGED <<pc, epub, fs, written, image_map, item_k, toc_structure,
                 spine_chapters, spine_i, cover_image, final_book, doc, nav,
                 metadata, epub_path, output_dir, clock, earlier, parked, server>>

\* the head of the loop: skip a file whose book.pkl exists, else call
\* process_epub(epub_path, out_dir)
BatchStep ==
  /\ batch.stage = "loop"
  /\ pc = "idle"
  /\ batch.i <= Len(batch.epub_files)
  /\ LET epub_file == CurrentFile
         out_dir == out_dir_of(epub_file)
     IN IF fs[out_dir].pkl # <<>>
        THEN /\ batch' = [batch EXCEPT !.skipped = @ + 1, !.i = @ + 1,
                                       !.out = Append(@, <<"Skipping", epub_file>>)]
             /\ UNCHANGED <<pc, epub, epub_path, output_dir>>
        ELSE /\ batch' = [batch EXCEPT
                            !.out = Append(@, <<"Processing", epub_file>>)]
             /\ epub_path' = path_join(DIRECTORY, epub_file)
             /\ output_dir' = out_dir
             /\ epub' = Named(epub_file).epub
             /\ pc' = "start"
  /\ written' = <<>>
  /\ image_map' = <<>>
  /\ item_k' = 1
  /\ toc_structure' = <<>>
  /\ spine_chapters' = <<>>
  /\ spine_i' = 0
  /\ cover_image' = <<>>
  /\ final_book' = <<>>
  /\ metadata' = <<>>
  /\ UNCHANGED <<fs, doc, nav, clock, earlier, parked, server>>

\* process_epub and save_to_pickle have returned
BatchDone ==
  /\ batch.stage = "loop"
  /\ pc = "saved"
  /\ batch' = [batch EXCEPT !.processed = @ + 1, !.i = @ + 1,
                            !.out = Append(@, <<"Done", CurrentFile>>)]
  /\ pc' = "idle"
  /\ UNCHANGED <<epub, fs, written, image_map, item_k, toc_structure,
                 spine_chapters, spine_i, cover_image, final_book, doc, nav,
                 metadata, epub_path, output_dir, clock, earlier, parked, server>>

\* an exception that ends the whole batch
BatchExcept_Propagates ==
  /\ batch.stage = "loop"
  /\ pc = "raised"
  /\ batch' = [batch EXCEPT !.stage = "done"]
  /\ pc' = "idle"
  /\ UNCHANGED <<epub, fs, written, image_map, item_k, toc_structure,
                 spine_chapters, spine_i, cover_image, final_book, doc, nav,
                 metadata, epub_path, output_dir, clock, earlier, parked, server>>

\* except Exception: the file is counted as skipped and the loop goes on
BatchExcept ==
  /\ batch.stage = "loop"
  /\ pc = "raised"
  /\ batch' = [batch EXCEPT !.skipped = @ + 1, !.i = @ + 1,
                            !.out = Append(@, <<"Error", CurrentFile>>)]
  /\ pc' = "idle"
  /\ UNCHANGED <<epub, fs, written, image_map, item_k, toc_structure,
                 spine_chapters, spine_i, cover_image, final_book, doc, nav,
                 metadata, epub_path, output_dir, clock, earlier, parked, server>>

\* return processed, skipped
BatchReturn ==
  /\ batch.stage = "loop"
  /\ pc = "idle"
  /\ batch.i > Len(batch.epub_files)
  /\ batch' = [batch EXCEPT !.stage = "done"]
  /\ UNCHANGED <<pc, epub, fs, written, image_map, item_k, toc_structure,
                 spine_chapters, spine_i, cover_image, final_book, doc, nav,
                 metadata, epub_path, output_dir, clock, earlier, parked, server>>

\* the directory: a text file, and up to MaxFiles epub files in the order
\* os.listdir gives them; each is unreadable, a book that ingests, or a book
\* whose image "!" makes process_epub raise, and its _data directory is
\* absent or left by an earlier ingestion
FileNames == {<<c>> \o DOT_EPUB : c \in {"a", "b", "c"}}
NOTES_TXT == <<"n", ".", "t", "x", "t">>
GOOD_EPUB ==
  [readable |-> TRUE,
   book |-> EpubBook(SMALL_MANIFEST, PlainSpine(SMALL_MANIFEST), <<>>, <<>>)]
BAD_IMAGE_EPUB ==
  [readable |-> TRUE,
   book |-> EpubBook(Manifest(<<Item(NAME_BANG, ITEM_IMAGE, <<>>)>>), <<>>, <<>>, <<>>)]
DirEntry(name, e, d) == [name |-> name, epub |-> e, data_dir |-> d]
ListingsOf(epubs, dirs) ==
  {<<DirEntry(NOTES_TXT, Unreadable, Absent)>> \o l :
     l \in {q \in SeqsUpTo({DirEntry(n, e, d) :
                               n \in FileNames, e \in epubs, d \in dirs}, MaxFiles) :
              \A j, k \in 1..Len(q) : j # k => q[j].name # q[k].name}}
Listings == ListingsOf({Unreadable, GOOD_EPUB, BAD_IMAGE_EPUB}, Disks)

InitBatchOn(listings) ==
  /\ pc = "idle"
  /\ written = <<>>
  /\ image_map = <<>>
  /\ item_k = 1
  /\ toc_structure = <<>>
  /\ spine_chapters = <<>>
  /\ spine_i = 0
  /\ cover_image = <<>>
  /\ final_book = <<>>
  /\ doc = Idle
  /\ nav = Idle
  /\ metadata = <<>>
  /\ epub = Unreadable
  /\ epub_path = <<>>
  /\ clock = 1
  /\ earlier = <<>>
  /\ parked = Idle
  /\ InitServer
  /\ batch \in {[stage |-> "list", listing |-> l, epub_files |-> <<>>, i |-> 0,
                  processed |-> 0, skipped |-> 0, out |-> <<>>] : l \in listings}
  /\ fs = [d \in {out_dir_of(n) : n \in FileNames \cup {NOTES_TXT}} |->
             IF \E k \in 1..Len(batch.listing) : out_dir_of(batch.listing[k].name) = d
             THEN batch.listing[CHOOSE k \in 1..Len(batch.listing) :
                                  out_dir_of(batch.listing[k].name) = d].data_dir
             ELSE Absent]
  /\ output_dir = out_dir_of(NOTES_TXT)

InitBatch == InitBatchOn(Listings)

NextBatch ==
  \/ Next
  \/ save_to_pickle
  \/ BatchList
  \/ BatchStep
  \/ BatchDone
  \/ BatchExcept
  \/ BatchReturn

SpecBatch == InitBatch /\ [][NextBatch]_vars

\* SpecBatchDirs: the _data directory of a file is absent, left by an
\* earlier ingestion, or left without book.pkl (by an ingestion that failed
\* after step 3, or by the reader saving highlights)
NO_PKL_DIR == [exists |-> TRUE, files |-> {File(HIGHLIGHTS, 0)}, pkl |-> <<>>]
InitBatchDirs ==
  InitBatchOn(ListingsOf({Unreadable, GOOD_EPUB}, Disks \cup {NO_PKL_DIR}))

SpecBatchDirs == InitBatchDirs /\ [][NextBatch]_vars

\* ------------------------------------------------------------------------
\* SpecPar: two calls of process_epub on different books and different
\* output locations, their steps interleaved
\* ------------------------------------------------------------------------
\* the arguments and local variables of a call
Call(p, e, path, dir, w, m, k, toc, chapters, i, cover, result, meta) ==
  [stage |-> "call", pc |-> p, epub |-> e, epub_path |-> path,
   output_dir |-> dir, written |-> w, image_map |-> m, item_k |-> k,
   toc_structure |-> toc, spine_chapters |-> chapters, spine_i |-> i,
   cover_image |-> cover, final_book |-> result, metadata |-> meta]

Running ==
  Call(pc, epub, epub_path, output_dir, written, image_map, item_k,
       toc_structure, spine_chapters, spine_i, cover_image, final_book, metadata)

\* the running call is suspended and the other one goes on
Switch ==
  /\ parked.stage = "call"
  /\ parked' = Running
  /\ pc' = parked.pc
  /\ epub' = parked.epub
  /\ epub_path' = parked.epub_path
  /\ output_dir' = parked.output_dir
  /\ written' = parked.written
  /\ image_map' = parked.image_map
  /\ item_k' = parked.item_k
  /\ toc_structure' = parked.toc_structure
  /\ spine_chapters' = parked.spine_chapters
  /\ spine_i' = parked.spine_i
  /\ cover_image' = parked.cover_image
  /\ final_book' = parked.final_book
  /\ metadata' = parked.metadata
  /\ UNCHANGED <<fs, doc, nav, clock, earlier, batch, server>>

\* the books: one that ingests, one with two images and a declared cover,
\* one whose image makes process_epub raise, and an unreadable container
TWO_IMAGES ==
  Manifest(<<Item(NAME_COVER, ITEM_IMAGE, <<>>), Item(NAME_XA, ITEM_IMAGE, <<>>),
             Item(<<"c", "2">>, ITEM_DOCUMENT, DOC_BARE)>>)
COVER_EPUB ==
  [readable |-> TRUE,
   book |-> EpubBook(TWO_IMAGES, PlainSpine(TWO_IMAGES), <<>>,
                     << <<None, << <<"name", "cover">>, <<"content", 2>> >> >> >>)]
ParBooks == {GOOD_EPUB, COVER_EPUB, BAD_IMAGE_EPUB, Unreadable}

PATH_A == <<"a", ".", "e", "p", "u", "b">>
PATH_B == <<"b", ".", "e", "p", "u", "b">>
DIR_A == <<"a", "_", "d", "a", "t", "a">>
DIR_B == <<"b", "_", "d", "a", "t", "a">>

InitPar ==
  /\ InitRun
  /\ InitServer
  /\ epub_path = PATH_A
  /\ output_dir = DIR_A
  /\ clock = 1
  /\ earlier = <<>>
  /\ batch = Idle
  /\ epub \in ParBooks
  /\ parked \in {Call("start", e, PATH_B, DIR_B, <<>>, <<>>, 1, <<>>, <<>>, 0,
                       <<>>, <<>>, <<>>) : e \in ParBooks \ {epub}}
  /\ fs \in [{DIR_A, DIR_B} -> Disks]

NextPar ==
  \/ Next
  \/ Switch
  \/ Tick

SpecPar == InitPar /\ [][NextPar]_vars

\* ------------------------------------------------------------------------
\* SpecCover: the inputs of detect_cover_image vary
\* ------------------------------------------------------------------------
\* images "Cover", "x/Cover" (the same basename), "Cover/a" (only the
\* directory holds the word) and "x/a"; documents whose first img refers
\* to "x/a", whose first img refers to nothing and second to "x/a", and
\* without any img
NAME_X_COVER == <<"x", "/">> \o NAME_COVER
NAME_COVER_A == NAME_COVER \o <<"/", "a">>
DOC_SECOND_IMG ==
  Markup(<<Elem("body", <<Img(<<"z">>), Img(NAME_XA)>>)>>)
CoverItems ==
  {Item(n, ITEM_IMAGE, <<>>) : n \in {NAME_COVER, NAME_X_COVER, NAME_COVER_A, NAME_XA}}
  \cup {Item(<<"c", "1">>, ITEM_DOCUMENT, DOC_FULL),
        Item(<<"c", "2">>, ITEM_DOCUMENT, DOC_BARE),
        Item(<<"c", "3">>, ITEM_DOCUMENT, DOC_SECOND_IMG)}

\* the spine that lists the items from the last to the first
ReverseSpine(items) ==
  [p \in 1..Len(items) |-> <<items[Len(items) + 1 - p].id, "yes">>]

InitCover ==
  /\ InitRun
  /\ InitServer
  /\ InitEnv
  /\ fs = [d \in {OUT_DIR} |-> Absent]
  /\ earlier = fs[output_dir].pkl
  /\ epub \in {Unreadable} \cup
       {[readable |-> TRUE, book |-> EpubBook(m, ReverseSpine(m), <<>>, c)] :
          m \in {Manifest(t) : t \in SeqsUpTo(CoverItems, MaxItems + 1)},
          c \in CoverMetas}

SpecCover == InitCover /\ [][Next]_vars

\* ------------------------------------------------------------------------
\* SpecMeta: the Dublin Core title and language vary
\* ------------------------------------------------------------------------
\* what a key of the metadata can hold: nothing, an element without text
\* (None), an empty string, a string, and two entries
DCEntry(value) == <<value, <<>>>>
DCLists ==
  {<<>>,
   <<DCEntry(<<>>)>>,
   <<DCEntry(Some(<<>>))>>,
   <<DCEntry(Some(<<"T">>))>>,
   <<DCEntry(Some(<<>>)), DCEntry(Some(<<"U">>))>>,
   <<DCEntry(Some(<<"T">>)), DCEntry(Some(<<"U">>))>>}

InitMeta ==
  /\ InitRun
  /\ InitServer
  /\ InitEnv
  /\ fs = [d \in {OUT_DIR} |-> Absent]
  /\ earlier = fs[output_dir].pkl
  /\ epub \in {Unreadable} \cup
       {[readable |-> TRUE,
         book |-> [EpubBook(SMALL_MANIFEST, PlainSpine(SMALL_MANIFEST), <<>>, <<>>)
                     EXCEPT !.dc = [DC(t, l) EXCEPT !.creator = a,
                                                    !.description = a]]] :
          t \in DCLists, l \in DCLists, a \in {<<>>, <<DCEntry(Some(<<"T">>))>>}}

SpecMeta == InitMeta /\ [][Next]_vars

\* ------------------------------------------------------------------------
\* SpecDoc: the chapter normaliser on every small document
\* ------------------------------------------------------------------------

\* the nodes a document is made of: elements that take children, script and
\* style (whose content is one string), and childless nodes
ContainerTags == {"p", "iframe", "video", "nav", "form", "button"}
RawTextTags == {"script", "style"}
\* the img elements: src "x/a" (a key of the image map), "y/a" (only its
\* basename is a key), "x%2Fa" (a key once decoded), "z" (no key), and none
SRC_YA == <<"y", "/", "a">>
SRC_ENCODED == <<"x", "%", "2", "F", "a">>
SRC_Z == <<"z">>
Leaves == {Text(<<"a">>), Text(<<" ", "b", " ">>), Comment(<<"c">>),
           Elem("input", <<>>), Img(NAME_XA), Img(SRC_Z),
           Img(SRC_YA), Img(SRC_ENCODED), Img(<<>>)}

\* the forests of exactly n nodes
RECURSIVE Forests(_)
Forests(n) ==
  IF n = 0 THEN {<<>>}
  ELSE UNION {
         {<<first>> \o rest : rest \in Forests(n - 1 - k),
            first \in
              (IF k = 0 THEN Leaves ELSE {})
              \cup {Elem(t, kids) : t \in ContainerTags, kids \in Forests(k)}
              \cup {Elem(t, kids) : t \in RawTextTags,
                      kids \in IF k = 0 THEN {<<>>}
                               ELSE IF k = 1 THEN {<<Text(<<"a">>)>>} ELSE {}}}
         : k \in 0..(n - 1)}

\* a fragment as it is, inside a body, or inside the body of a document
\* that has a head with a title
Wrappings(f) ==
  {f,
   <<Elem("body", f)>>,
   <<Elem("html", <<Elem("head", <<Elem("title", <<Text(<<"t">>)>>)>>),
                    Elem("body", f)>>)>>}

\* the raw documents: the markup of every wrapped forest of at most
\* MaxNodes nodes
RawDocs ==
  UNION {{Markup(w) : w \in Wrappings(f)} :
           f \in UNION {Forests(n) : n \in 0..MaxNodes}}

\* the image map process_epub builds for the one image "x/a"
DOC_IMAGE_MAP ==
  DictSet(DictSet(<<>>, NAME_XA, IMAGES_SLASH \o <<"a">>),
          basename(NAME_XA), IMAGES_SLASH \o <<"a">>)

InitDoc ==
  /\ pc = "idle"
  /\ epub = Unreadable
  /\ InitEnv
  /\ InitServer
  /\ metadata = <<>>
  /\ fs = [d \in {OUT_DIR} |-> Absent]
  /\ earlier = fs[output_dir].pkl
  /\ written = <<>>
  /\ image_map = DOC_IMAGE_MAP
  /\ item_k = 1
  /\ toc_structure = <<>>
  /\ spine_chapters = <<>>
  /\ spine_i = 0
  /\ cover_image = <<>>
  /\ final_book = <<>>
  /\ nav = Idle
  /\ doc \in {[stage |-> "raw", raw |-> r, parsed |-> <<>>, soup |-> <<>>,
               content |-> <<>>, text |-> <<>>] : r \in RawDocs}

\* steps A to D of the spine loop on doc.raw
NormalizeChapter ==
  /\ doc.stage = "raw"
  /\ LET parsed == FixImages(BeautifulSoup(doc.raw), image_map)
         soup == clean_html_content(parsed)
     IN doc' = [stage |-> "done", raw |-> doc.raw, parsed |-> parsed,
                soup |-> soup, content |-> final_html(soup),
                text |-> extract_plain_text(soup)]
  /\ UNCHANGED <<pc, epub, fs, written, image_map, item_k, toc_structure,
                 spine_chapters, spine_i, cover_image, final_book, nav,
                 metadata, env>>

NextDoc == NormalizeChapter

SpecDoc == InitDoc /\ [][NextDoc]_vars

\* ------------------------------------------------------------------------
\* SpecToc: parse_toc_recursive on navigation lists whose hrefs are every
\* string of 'a' and '#' of at most MaxHref characters
\* ------------------------------------------------------------------------
Hrefs == SeqsUpTo({"a", "#"}, MaxHref)

\* a section nested n levels deep around one link
RECURSIVE Nested(_)
Nested(n) ==
  IF n = 0 THEN NavNode(LINK, "U", <<"a">>, <<>>)
  ELSE NavNode(TUPLE, "T", <<"a">>, <<Nested(n - 1)>>)

\* a list that mixes the shapes: a link, an unrecognised node, and a section
\* with a childless section, an unrecognised node, a link and an empty
\* section-with-children below it
MIXED_TOC ==
  <<NavNode(LINK, "A", <<"a">>, <<>>),
    NavNode(UNKNOWN, "", <<>>, <<>>),
    NavNode(TUPLE, "B", <<"a", "#">>,
            <<NavNode(SECTION, "C", <<>>, <<>>),
              NavNode(UNKNOWN, "", <<>>, <<>>),
              NavNode(LINK, "A", <<"a">>, <<>>),
              NavNode(TUPLE, "D", <<"a">>, <<>>)>>),
    NavNode(LINK, "A", <<"a">>, <<>>)>>

TocLists ==
  {<<NavNode(UNKNOWN, "", <<>>, <<>>)>>, MIXED_TOC}
  \cup {<<Nested(n), NavNode(LINK, "V", h, <<>>)>> :
          n \in 1..(RecursionLimit + 1), h \in Hrefs}
  \cup {<<NavNode(k, "T", h, <<>>)>> : k \in {LINK, SECTION}, h \in Hrefs}
  \cup {<<NavNode(TUPLE, "T", h, <<NavNode(LINK, "U", h2, <<>>)>>)>> :
          h \in Hrefs, h2 \in Hrefs}

InitToc ==
  /\ pc = "idle"
  /\ epub = Unreadable
  /\ InitEnv
  /\ InitServer
  /\ metadata = <<>>
  /\ fs = [d \in {OUT_DIR} |-> Absent]
  /\ earlier = fs[output_dir].pkl
  /\ written = <<>>
  /\ image_map = <<>>
  /\ item_k = 1
  /\ toc_structure = <<>>
  /\ spine_chapters = <<>>
  /\ spine_i = 0
  /\ cover_image = <<>>
  /\ final_book = <<>>
  /\ doc = Idle
  /\ nav \in {[stage |-> "raw", toc_list |-> t, result |-> <<>>, raised |-> FALSE] :
               t \in TocLists}

ParseToc ==
  /\ nav.stage = "raw"
  /\ nav' = IF RecursionError(nav.toc_list, 0)
             THEN [stage |-> "done", toc_list |-> nav.toc_list,
                   result |-> <<>>, raised |-> TRUE]
             ELSE [stage |-> "done", toc_list |-> nav.toc_list,
                   result |-> parse_toc_recursive(nav.toc_list, 0),
                   raised |-> FALSE]
  /\ UNCHANGED <<pc, epub, fs, written, image_map, item_k, toc_structure,
                 spine_chapters, spine_i, cover_image, final_book, doc,
                 metadata, env>>

NextToc == ParseToc

SpecToc == InitToc /\ [][NextToc]_vars

\* ========================================================================
\* Properties
\* ========================================================================
Returned == pc = "returned"
TheBook == final_book[1]
Range(f) == {f[k] : k \in DOMAIN f}

\* the spine entry names an item of the manifest, and that item (the first
\* with the id) is a document
IsDocumentEntry(e) ==
  \E p \in 1..Len(book.items) :
     /\ book.items[p].id = e[1]
     /\ book.items[p].type = ITEM_DOCUMENT
     /\ \A q \in 1..(p - 1) : book.items[q].id # e[1]
NameOfId(id) == book.items[Min({p \in 1..Len(book.items) : book.items[p].id = id})].name

\* C1: after process_epub, the order of every chapter is its 0-based index
\* in Book.spine, also when spine entries were skipped.
C1_OrderIsIndex ==
  Returned =>
    \A k \in 1..Len(TheBook.spine) : TheBook.spine[k].order = k - 1

\* C2: process_epub produces exactly one chapter per spine entry whose id
\* resolves to a document item, in spine order; dangling and non-document
\* entries are skipped without raising and without affecting the others.
C2_OneChapterPerDocumentEntry ==
  /\ pc = "raised" => ~epub.readable
  /\ pc \in {"chapters", "assemble", "returned"} =>
       LET expected == SelectSeq(SubSeq(book.spine, 1, spine_i), IsDocumentEntry)
       IN /\ Len(spine_chapters) = Len(expected)
          /\ \A k \in 1..Len(expected) :
               /\ spine_chapters[k].id = expected[k][1]
               /\ spine_chapters[k].href = NameOfId(expected[k][1])
  /\ Returned => spine_i = Len(book.spine) /\ TheBook.spine = spine_chapters

C2_Witness ==
  /\ Returned
  /\ Len(book.spine) = 2
  /\ ~IsDocumentEntry(book.spine[1])
  /\ IsDocumentEntry(book.spine[2])
  /\ Len(TheBook.spine) = 1

RECURSIVE AllEntries(_)
AllEntries(forest) ==
  IF forest = <<>> THEN {}
  ELSE {Head(forest)} \cup AllEntries(Head(forest).children)
       \cup AllEntries(Tail(forest))

FirstHash(href) == Min(Positions(href, "#"))

\* C4: for every entry parse_toc_recursive builds, file_href is the part of
\* href before the first '#' and anchor is the whole part after the first
\* '#' (empty when there is none), also when href holds more than one '#'.
C4_SplitAtFirstHash ==
  nav.stage = "done" =>
    \A e \in AllEntries(nav.result) :
       IF Positions(e.href, "#") = {}
       THEN e.file_href = e.href /\ e.anchor = <<>>
       ELSE /\ e.file_href = SubSeq(e.href, 1, FirstHash(e.href) - 1)
            /\ e.anchor = SubSeq(e.href, FirstHash(e.href) + 1, Len(e.href))

\* C5: extracting the plain text of a chapter's stored content gives the
\* chapter's stored text, for every source document.
C5_TextOfContentIsText ==
  doc.stage = "done" =>
    extract_plain_text(BeautifulSoup(doc.content)) = doc.text

IsImagesPath(path) ==
  /\ Len(path) > Len(IMAGES_SLASH)
  /\ SubSeq(path, 1, Len(IMAGES_SLASH)) = IMAGES_SLASH
  /\ Positions(SubSeq(path, Len(IMAGES_SLASH) + 1, Len(path)), "/") = {}

\* C6: after process_epub returns, every key of Book.images maps to a
\* relative path images/<name> whose file exists in output_dir and was
\* written during this run.
C6_MappedFilesExist ==
  Returned =>
    \A k \in 1..Len(TheBook.images) :
       LET path == TheBook.images[k][2]
       IN /\ IsImagesPath(path)
          /\ disk.exists
          /\ \E f \in disk.files : f.path = path /\ f.data # 0
          /\ path \in Range(written)

C6_Witness ==
  /\ Returned
  /\ Len(TheBook.images) >= 3
  /\ \E f \in disk.files : f.data = 2

\* C7: within one run no image target path is written more than once: two
\* image resources whose basenames sanitise to the same name are stored
\* under distinct paths.
C7_NoPathWrittenTwice ==
  \A j, k \in 1..Len(written) : j # k => written[j] # written[k]

\* C8: Book.cover_image is None or a value of Book.images, whichever method
\* of detect_cover_image produced it.
C8_CoverIsMapped ==
  /\ pc \in {"assemble", "returned"} =>
       cover_image = <<>> \/ cover_image[1] \in DictValues(image_map)
  /\ Returned =>
       \/ TheBook.cover_image = <<>>
       \/ \E k \in 1..Len(TheBook.images) :
            TheBook.images[k][2] = TheBook.cover_image[1]

\* some declaration names an item id; the first item with that id
DeclaresCover ==
  /\ epub.readable
  /\ book.cover_meta # <<>>
  /\ \E a \in 1..Len(book.cover_meta[1][2]) : book.cover_meta[1][2][a][1] = "content"
DeclaredId ==
  LET attrs == book.cover_meta[1][2]
  IN attrs[CHOOSE a \in 1..Len(attrs) : attrs[a][1] = "content"][2]
DeclaredCoverResolves ==
  /\ DeclaresCover
  /\ \E p \in 1..Len(book.items) : book.items[p].id = DeclaredId
  /\ \E k \in 1..Len(image_map) : image_map[k][1] = NameOfId(DeclaredId)

\* a cover found by the first document's first image, with no declaration
\* and no key holding "cover"
C8_Witness ==
  /\ Returned
  /\ book.cover_meta = <<>>
  /\ \A k \in 1..Len(image_map) : ~Contains(lower(image_map[k][1]), COVER)
  /\ TheBook.cover_image # <<>>

\* C9: when the container declares a cover whose item's name is a key of
\* the image map, detect_cover_image returns that item's mapped path, even
\* if other image keys, earlier or later, contain "cover".
C9_DeclaredCoverWins ==
  (pc \in {"assemble", "returned"} /\ DeclaredCoverResolves) =>
     /\ cover_image =
          <<IMAGES_SLASH \o safe_fname(basename(NameOfId(DeclaredId)))>>
     /\ \E k \in 1..Len(image_map) :
          /\ image_map[k][1] = NameOfId(DeclaredId)
          /\ cover_image = <<image_map[k][2]>>

\* the declared cover is the second image, and the first image's name
\* holds "cover" and maps elsewhere
C9_Witness ==
  /\ Returned
  /\ DeclaredCoverResolves
  /\ DeclaredId = 2
  /\ Contains(lower(image_map[1][1]), COVER)
  /\ image_map[1][2] # cover_image[1]

RemovedKinds == RemovedTags \cup {"input", COMMENT}

\* the nodes of a forest that have no removed kind among themselves and
\* their ancestors
RECURSIVE Kept(_)
Kept(forest) ==
  IF forest = <<>> THEN {}
  ELSE (IF Head(forest).tag \in RemovedKinds THEN {}
        ELSE {Head(forest).nid} \cup Kept(Head(forest).kids))
       \cup Kept(Tail(forest))

Nids(forest) == [k \in 1..Len(Descendants(forest)) |-> Descendants(forest)[k].nid]

\* C10: after clean_html_content the tree holds no script, style, iframe,
\* video, nav, form, button or input element and no comment at any depth
\* (each removed with its subtree), and the nodes that remain, which are
\* all the others, keep their relative order.
C10_Sanitized ==
  doc.stage = "done" =>
    /\ \A k \in 1..Len(Descendants(doc.soup)) :
         Descendants(doc.soup)[k].tag \notin RemovedKinds
    /\ Range(Nids(doc.soup)) = Kept(doc.parsed)
    /\ \A j, k \in 1..Len(Nids(doc.soup)) :
         j < k => Nids(doc.soup)[j] < Nids(doc.soup)[k]

\* a removed element nested in a paragraph of the body: the paragraph
\* stays, empty
C10_Witness ==
  /\ doc.stage = "done"
  /\ HasTag(doc.parsed, "body")
  /\ \E k \in 1..Len(Descendants(doc.parsed)) :
       LET n == Descendants(doc.parsed)[k]
       IN /\ n.tag = "p"
          /\ Len(n.kids) = 1
          /\ n.kids[1].tag \in RemovedTags
  /\ HasTag(doc.soup, "p")
  /\ find(doc.soup, "p").kids = <<>>

\* C12: the only failure that makes process_epub abort without returning a
\* Book is a failure to read the container; a failure while handling one
\* image does not abort the book.
C12_OnlyContainerFailureAborts ==
  pc = "raised" => ~epub.readable

\* C15: no two chapters of the produced sequence have the same href, also
\* when the spine lists the same item id more than once.
C15_HrefsUnique ==
  Returned =>
    \A j, k \in 1..Len(TheBook.spine) :
       j # k => TheBook.spine[j].href # TheBook.spine[k].href

\* C16: whenever the manifest holds at least one document item, Book.toc is
\* not empty after process_epub, whatever the navigation structure holds.
C16_TocNotEmpty ==
  /\ (pc \in {"chapters", "assemble", "returned"}
      /\ \E p \in 1..Len(book.items) : book.items[p].type = ITEM_DOCUMENT)
       => toc_structure # <<>>
  /\ (Returned /\ \E p \in 1..Len(book.items) : book.items[p].type = ITEM_DOCUMENT)
       => TheBook.toc # <<>>

\* a navigation list of unrecognised nodes only, and a document
C16_Witness ==
  /\ Returned
  /\ book.toc # <<>>
  /\ \A k \in 1..Len(book.toc) : book.toc[k].kind = UNKNOWN
  /\ \E p \in 1..Len(book.items) : book.items[p].type = ITEM_DOCUMENT
  /\ TheBook.toc # <<>>

IsKey(key) == \E j \in 1..Len(image_map) : image_map[j][1] = key
ValueOf(key) == image_map[CHOOSE j \in 1..Len(image_map) : image_map[j][1] = key][2]

\* C20: for every img with a non-empty src: if the URL-decoded src is a key
\* of the image map the src becomes that key's value; else if the basename
\* of the decoded src is a key the src becomes that key's value; else the src
\* is left as it was; the element is kept, and nothing else changes.
C20_ImageRewrite ==
  doc.stage = "done" =>
    LET was == Descendants(BeautifulSoup(doc.raw))
        now == Descendants(doc.parsed)
    IN /\ Len(now) = Len(was)
       /\ \A k \in 1..Len(was) :
            /\ now[k].tag = was[k].tag
            /\ now[k].nid = was[k].nid
            /\ now[k].s = was[k].s
            /\ now[k].src =
                 IF was[k].tag # "img" \/ was[k].src = <<>> THEN was[k].src
                 ELSE IF IsKey(unquote(was[k].src)) THEN ValueOf(unquote(was[k].src))
                 ELSE IF IsKey(basename(unquote(was[k].src)))
                      THEN ValueOf(basename(unquote(was[k].src)))
                 ELSE was[k].src

\* one img resolved by the basename of its decoded src only, next to one
\* that does not resolve
C20_Witness ==
  /\ doc.stage = "done"
  /\ LET was == Descendants(BeautifulSoup(doc.raw))
         now == Descendants(doc.parsed)
     IN \E j, k \in 1..Len(was) :
          /\ was[j].src = SRC_ENCODED /\ now[j].src = IMAGES_SLASH \o <<"a">>
          /\ was[k].src = SRC_Z /\ now[k].src = SRC_Z

C20_WitnessBasename ==
  /\ doc.stage = "done"
  /\ LET was == Descendants(BeautifulSoup(doc.raw))
         now == Descendants(doc.parsed)
     IN \E j \in 1..Len(was) :
          /\ was[j].src = SRC_YA
          /\ ~IsKey(SRC_YA)
          /\ now[j].src = IMAGES_SLASH \o <<"a">>

\* the deepest level of a navigation list (1 for a flat list)
RECURSIVE Nesting(_)
Nesting(toc_list) ==
  IF toc_list = <<>> THEN 0
  ELSE Max({1} \cup {1 + Nesting(toc_list[k].children) : k \in 1..Len(toc_list)})

\* C17: the descent is bounded in depth: for a navigation list nested deeper
\* than the cap only the subtree beyond the cap fails; parse_toc_recursive
\* still returns, with an entry for every recognised top-level node, and no
\* entry lies deeper than the cap.
C17_DepthBounded ==
  nav.stage = "done" =>
    /\ ~nav.raised
    /\ Len(nav.result) =
         Cardinality({k \in 1..Len(nav.toc_list) : nav.toc_list[k].kind # UNKNOWN})
    /\ Nesting(nav.result) <= RecursionLimit + 1

\* the first value of a key of the source's metadata is missing, None or ""
HasNo(key) ==
  \/ book.dc[key] = <<>>
  \/ book.dc[key][1][1] = <<>>
  \/ book.dc[key][1][1] = <<<<>>>>

\* C14: extract_metadata_robust never fails, and the title and the language
\* it returns are never absent or empty: "Untitled" when the source has no
\* title, "en" when it has no language.
C14_TitleAndLanguageDefault ==
  /\ (pc = "metadata" => ENABLED ExtractMetadata)
  /\ (pc \in {"prepare", "images", "chapters", "assemble", "returned"} =>
        /\ metadata # <<>>
        /\ metadata[1].title # <<>>
        /\ metadata[1].language # <<>>
        /\ (HasNo("title") => metadata[1].title = UNTITLED)
        /\ (HasNo("language") => metadata[1].language = EN)
        /\ (~HasNo("title") => <<metadata[1].title>> = book.dc.title[1][1])
        /\ (~HasNo("language") => <<metadata[1].language>> = book.dc.language[1][1]))
  /\ (Returned => TheBook.metadata = metadata[1])

\* the first title is an empty string and there is no language at all
C14_Witness ==
  /\ Returned
  /\ book.dc.title # <<>>
  /\ book.dc.title[1][1] = <<<<>>>>
  /\ book.dc.language = <<>>
  /\ TheBook.metadata.title = UNTITLED
  /\ TheBook.metadata.language = EN

\* C18: after process_epub has returned, nothing that output_dir held before
\* the run remains: no earlier image, no earlier book.pkl, no highlights or
\* reading-progress file; every file in it was written by this run.
C18_NothingPriorRemains ==
  Returned =>
    /\ disk.exists
    /\ disk.pkl = <<>>
    /\ \A f \in disk.files :
         /\ f.data # 0
         /\ f.path \in Range(written)
         /\ f.path \notin {OLD_IMAGE, HIGHLIGHTS, PROGRESS, BOOK_PKL}

\* output_dir held a book.pkl before the call, and the call wrote an image
C18_Witness ==
  /\ Returned
  /\ earlier = <<OLD_PKL>>
  /\ disk.files # {}

\* C11: process_epub followed by save_to_pickle, run twice on the same input
\* into the same output location, gives the same Book and the same
\* serialized output: the second book.pkl equals the first, field by field.
C11_RerunIdentical ==
  (pc = "saved" /\ earlier # <<>>) => disk.pkl = earlier

\* what the batch printed for each file it went through, the announcements
\* "Processing" left out
Outcomes == SelectSeq(batch.out, LAMBDA e : e[1] # "Processing")
EpubNames ==
  {batch.listing[k].name : k \in {j \in 1..Len(batch.listing) :
                                    endswith(batch.listing[j].name, DOT_EPUB)}}
CountOf(kinds) == Cardinality({k \in 1..Len(Outcomes) : Outcomes[k][1] \in kinds})

\* C13: a failure while ingesting one file does not stop the batch: when
\* process_all_epubs returns, every epub file of the directory has been gone
\* through, in sorted order; each file after a failed one was skipped as
\* already processed or handed to process_epub; and the failed files are
\* counted in the summary (processed, skipped).
C13_BatchContinues ==
  batch.stage = "done" =>
    /\ {Outcomes[k][2] : k \in 1..Len(Outcomes)} = EpubNames
    /\ \A j, k \in 1..Len(Outcomes) :
         j < k => StrLess(Outcomes[j][2], Outcomes[k][2])
    /\ \A k \in 1..Len(Outcomes) :
         Outcomes[k][1] \in {"Done", "Error"} =>
           \E n \in 1..Len(batch.out) : batch.out[n] = <<"Processing", Outcomes[k][2]>>
    /\ batch.processed = CountOf({"Done"})
    /\ batch.skipped = CountOf({"Error", "Skipping"})
    /\ batch.processed + batch.skipped = Cardinality(EpubNames)

\* a file that failed, followed by one that was ingested
C13_Witness ==
  /\ batch.stage = "done"
  /\ \E k \in 1..Len(Outcomes) :
       /\ Outcomes[k][1] = "Error"
       /\ k < Len(Outcomes)
       /\ Outcomes[k + 1][1] = "Done"
  /\ batch.processed = 1
  /\ batch.skipped = 1

\* What one call of process_epub produces when nothing else runs, computed
\* from its arguments alone: the image map and the files after the first n
\* manifest items, the chapters of the first n spine entries, the TOC, and
\* whether the call raises.
ImageTarget(item) == IMAGES_SLASH \o safe_fname(basename(item.name))

RECURSIVE AloneImages(_, _)
AloneImages(items, n) ==
  IF n = 0 THEN <<>>
  ELSE IF items[n].type # ITEM_IMAGE THEN AloneImages(items, n - 1)
  ELSE DictSet(DictSet(AloneImages(items, n - 1), items[n].name, ImageTarget(items[n])),
               basename(items[n].name), ImageTarget(items[n]))

RECURSIVE AloneFiles(_, _)
AloneFiles(items, n) ==
  IF n = 0 THEN {}
  ELSE IF items[n].type # ITEM_IMAGE THEN AloneFiles(items, n - 1)
  ELSE WriteFile(AloneFiles(items, n - 1), ImageTarget(items[n]), items[n].bytes)

RECURSIVE AloneSpine(_, _)
AloneSpine(b, n) ==
  IF n = 0 THEN <<>>
  ELSE LET item_id == b.spine[n][1]
       IN IF /\ HasItemWithId(b.items, item_id)
             /\ get_item_with_id(b.items, item_id).type = ITEM_DOCUMENT
          THEN Append(AloneSpine(b, n - 1),
                      ChapterContent(item_id, get_item_with_id(b.items, item_id),
                                     n - 1, AloneImages(b.items, Len(b.items))))
          ELSE AloneSpine(b, n - 1)

AloneToc(b) ==
  IF parse_toc_recursive(b.toc, 0) = <<>>
  THEN get_fallback_toc(b.items)
  ELSE parse_toc_recursive(b.toc, 0)

AloneRaises(e) ==
  \/ ~e.readable
  \/ \E k \in 1..Len(e.book.items) :
       /\ e.book.items[k].type = ITEM_IMAGE
       /\ IsDirectoryName(safe_fname(basename(e.book.items[k].name)))
  \/ RecursionError(e.book.toc, 0)

AloneBook(e, path, at) ==
  Book(extract_metadata_robust(e.book),
       AloneSpine(e.book, Len(e.book.spine)),
       AloneToc(e.book),
       AloneImages(e.book.items, Len(e.book.items)),
       basename(path), at,
       detect_cover_image(e.book, AloneImages(e.book.items, Len(e.book.items))))

\* a call that has ended holds what it would hold had it run alone
AsAlone(c) ==
  /\ c.pc = "raised" => AloneRaises(c.epub)
  /\ c.pc = "returned" =>
       /\ ~AloneRaises(c.epub)
       /\ c.final_book[1] =
            AloneBook(c.epub, c.epub_path, c.final_book[1].processed_at)
       /\ fs[c.output_dir] =
            [exists |-> TRUE,
             files |-> AloneFiles(c.epub.book.items, Len(c.epub.book.items)),
             pkl |-> <<>>]

\* C19: two calls of process_epub on different books and distinct output
\* locations, interleaved in any order: each one that has ended has the
\* Book, and the files in its own output location, that it has when run
\* alone, and no step of a call changes anything outside that call's own
\* output location or any local variable of the other call.
C19_Interleaved ==
  /\ [](parked.stage = "call" => AsAlone(Running) /\ AsAlone(parked))
  /\ [][Next => /\ \A d \in DOMAIN fs : d # output_dir => fs'[d] = fs[d]
                /\ parked' = parked
                /\ output_dir' = output_dir]_vars

\* both calls have returned, the one that returned first while the other
\* was between its steps
C19_Witness ==
  /\ parked.stage = "call"
  /\ parked.pc = "returned"
  /\ Returned
  /\ parked.final_book[1].processed_at # TheBook.processed_at
  /\ fs[parked.output_dir].files # {}
  /\ disk.files # fs[parked.output_dir].files

\* the manifest positions of the images whose full internal path holds
\* "cover", whatever the case of its letters
CoverNamed ==
  {p \in 1..Len(book.items) :
     /\ book.items[p].type = ITEM_IMAGE
     /\ Contains(lower(book.items[p].name), COVER)}
SomeKeyHoldsCover ==
  \E k \in 1..Len(image_map) : Contains(lower(image_map[k][1]), COVER)

\* C21: when the declaration gives nothing and some key of the image map
\* holds "cover" (in any case), detect_cover_image returns the local path of
\* the first image of the manifest whose full internal path holds "cover",
\* also when several images share a basename.
C21_FirstCoverNamedImage ==
  (pc \in {"assemble", "returned"} /\ ~DeclaredCoverResolves /\ SomeKeyHoldsCover) =>
     /\ CoverNamed # {}
     /\ cover_image =
          <<IMAGES_SLASH \o safe_fname(basename(book.items[Min(CoverNamed)].name))>>

\* "Cover/a" comes first and two later images share the basename "Cover"
C21_Witness ==
  /\ Returned
  /\ ~DeclaredCoverResolves
  /\ Len(book.items) = 3
  /\ book.items[1].name = NAME_COVER_A
  /\ book.items[2].name = NAME_X_COVER
  /\ book.items[3].name = NAME_COVER
  /\ TheBook.cover_image = <<IMAGES_SLASH \o <<"a">>>>

\* the src of the first img of the first document of the manifest, <<>>
\* when there is no document, no img in it, or no src
FirstDocs == {p \in 1..Len(book.items) : book.items[p].type = ITEM_DOCUMENT}
FirstImgSrc ==
  IF FirstDocs = {} THEN <<>>
  ELSE LET nodes == Descendants(BeautifulSoup(book.items[Min(FirstDocs)].content))
           imgs == {k \in 1..Len(nodes) : nodes[k].tag = "img"}
       IN IF imgs = {} THEN <<>> ELSE nodes[Min(imgs)].src
FirstImgResolves ==
  /\ FirstImgSrc # <<>>
  /\ \/ IsKey(unquote(FirstImgSrc))
     \/ IsKey(basename(unquote(FirstImgSrc)))

C23_CoverNeverRaises ==
  /\ [][(pc = "chapters" /\ spine_i >= Len(book.spine)) => pc' = "assemble"]_vars
  /\ [](pc \in {"assemble", "returned"} =>
         /\ cover_image = <<>> <=>
              (~DeclaredCoverResolves /\ ~SomeKeyHoldsCover /\ ~FirstImgResolves)
         /\ (~DeclaredCoverResolves /\ SomeKeyHoldsCover) =>
              cover_image =
                <<IMAGES_SLASH \o safe_fname(basename(book.items[Min(CoverNamed)].name))>>)

\* a declaration that names a document, and one that names no item, with a
\* cover found by the name heuristic
C23_Witness ==
  /\ Returned
  /\ DeclaresCover
  /\ ~DeclaredCoverResolves
  /\ \/ \A p \in 1..Len(book.items) : book.items[p].id # DeclaredId
     \/ \E p \in 1..Len(book.items) :
          book.items[p].id = DeclaredId /\ book.items[p].type = ITEM_DOCUMENT
  /\ SomeKeyHoldsCover
  /\ TheBook.cover_image # <<>>

\* the positions of the body elements among the nodes of the sanitized
\* document, in document order
Bodies == {k \in 1..Len(Descendants(doc.soup)) : Descendants(doc.soup)[k].tag = "body"}

\* C24: a chapter's content is the serialization of the children of the
\* sanitized document's body element, in order, and of nothing else, when
\* there is a body element; it is the serialization of the whole sanitized
\* document when there is none.
C24_ContentIsBodyChildren ==
  doc.stage = "done" =>
    doc.content =
      IF Bodies = {} THEN Markup(doc.soup)
      ELSE Markup(Descendants(doc.soup)[Min(Bodies)].kids)

\* a document with a head and a body of two children: the content holds the
\* two children and not the title
C24_Witness ==
  /\ doc.stage = "done"
  /\ HasTag(doc.soup, "head")
  /\ Bodies # {}
  /\ Len(Descendants(doc.soup)[Min(Bodies)].kids) = 2
  /\ doc.content # Markup(doc.soup)
  /\ Len(doc.content) >= 2

\* the forest has one entry per recognised node of the list, in the list's
\* order, each with the node's title and href; the children of the entry of
\* a section-with-children are such a forest for its child list, and every
\* other entry has none
RECURSIVE OneEntryPerNode(_, _)
OneEntryPerNode(forest, toc_list) ==
  LET nodes == SelectSeq(toc_list, LAMBDA n : n.kind \in {TUPLE, LINK, SECTION})
  IN /\ Len(forest) = Len(nodes)
     /\ \A k \in 1..Len(nodes) :
          /\ forest[k].title = nodes[k].title
          /\ forest[k].href = nodes[k].href
          /\ IF nodes[k].kind = TUPLE
             THEN OneEntryPerNode(forest[k].children, nodes[k].children)
             ELSE forest[k].children = <<>>

\* the recognised nodes of a list, at every level
RECURSIVE CountNodes(_)
CountNodes(toc_list) ==
  IF toc_list = <<>> THEN 0
  ELSE (IF Head(toc_list).kind = UNKNOWN THEN 0
        ELSE 1 + (IF Head(toc_list).kind = TUPLE
                  THEN CountNodes(Head(toc_list).children) ELSE 0))
       + CountNodes(Tail(toc_list))
RECURSIVE CountEntries(_)
CountEntries(forest) ==
  IF forest = <<>> THEN 0
  ELSE 1 + CountEntries(Head(forest).children) + CountEntries(Tail(forest))

\* C25: the forest parse_toc_recursive returns has, at every level, one
\* entry per node of a recognised shape, in source order: the entry of a
\* section-with-children has the conversion of its child list as children,
\* the entry of a link or of a childless section has none, and the forest
\* holds as many entries as there are recognised nodes, none twice.
C25_OneEntryPerNode ==
  (nav.stage = "done" /\ ~nav.raised) =>
     /\ OneEntryPerNode(nav.result, nav.toc_list)
     /\ CountEntries(nav.result) = CountNodes(nav.toc_list)

C25_Witness ==
  /\ nav.stage = "done"
  /\ nav.toc_list = MIXED_TOC
  /\ Len(nav.result) = 3
  /\ Len(nav.result[2].children) = 3
  /\ nav.result[2].children[1].title = "C"
  /\ nav.result[3] = nav.result[1]

\* C26: the title of every chapter of the Book is "Section k" with k the
\* chapter's 1-based position among the chapters produced, also when
\* earlier spine entries were skipped.
C26_TitleIsPosition ==
  Returned =>
    \A k \in 1..Len(TheBook.spine) : TheBook.spine[k].title = <<"Section ", k>>

\* C27: when reading the container fails, process_epub has changed nothing
\* on disk: the step that reads the container leaves the file system as it
\* is, and after the failure an output location that existed before the
\* call still holds its book.pkl, its images and its auxiliary files.
C27_FailedReadChangesNothing ==
  /\ [][pc = "start" => fs' = fs]_vars
  /\ []((pc = "raised" /\ ~epub.readable) =>
          /\ written = <<>>
          /\ disk \in Disks
          /\ disk.pkl = earlier)

C27_Witness ==
  /\ pc = "raised"
  /\ ~epub.readable
  /\ disk.exists
  /\ disk.pkl = <<OLD_PKL>>
  /\ {File(OLD_IMAGE, 0), File(HIGHLIGHTS, 0), File(PROGRESS, 0)} \subseteq disk.files

\* the entry of the listing with this name
EntryOf(name) ==
  batch.listing[CHOOSE k \in 1..Len(batch.listing) : batch.listing[k].name = name]
OutcomeOf(name) ==
  Outcomes[CHOOSE k \in 1..Len(Outcomes) : Outcomes[k][2] = name][1]

\* C28: process_all_epubs ingests exactly the epub files that do not
\* already have a _data folder: when it returns, a file whose _data folder
\* existed was skipped and the folder is as it was, and every other epub
\* file was handed to process_epub.
C28_ExistingFolderSkipped ==
  batch.stage = "done" =>
    \A name \in EpubNames :
       /\ \E k \in 1..Len(Outcomes) : Outcomes[k][2] = name
       /\ IF EntryOf(name).data_dir.exists
          THEN /\ OutcomeOf(name) = "Skipping"
               /\ fs[out_dir_of(name)] = EntryOf(name).data_dir
          ELSE OutcomeOf(name) \in {"Done", "Error"}


\* ------------------------------------------------------------------------
\* The server: what it loads and where it redirects
\* ------------------------------------------------------------------------
\* C29: once save_to_pickle has created or replaced book.pkl of the folder,
\* a request that calls load_book_cached for that folder gets the Book that
\* book.pkl now holds, not what the cache held before. (Calls after the
\* first one answer from the cache what the first one stored, so the
\* property is stated for every call made while the ingestion is saved.)
C29_LoadReturnsStoredBook ==
  [][(/\ pc = "saved"
      /\ response' # response
      /\ basename(response'.book_id) = output_dir)
     => response'.book = <<loads(disk.pkl[1])>>]_vars

\* C30: when the book loads, redirect_to_saved_chapter redirects to a
\* chapter index of the spine, one that read_chapter answers with 200,
\* whatever reading_progress.json holds and when it does not exist
C30_RedirectIsServed ==
  (response.stage = "redirect" /\ response.book # <<>>)
  => /\ 0 <= response.index
     /\ response.index < Len(response.book[1].spine)
     /\ read_chapter_status(response.book, response.index) = 200

====
